---- MODULE Spec2Model ----
(***************************************************************************)
(* Model of the secure AI agent gateway: the sliding-window rate limiter,  *)
(* the agent/session store, the user store, the credential vault and the   *)
(* request-admission pipeline of routes/proxy.rs.                          *)
(*                                                                         *)
(* Time.  `now` is the wall clock (Utc::now(), unit: one hour) and         *)
(* `instant` is the monotonic clock (Instant::now(), unit: one rate-limit  *)
(* tick).  Both only move forward.                                         *)
(***************************************************************************)
EXTENDS Integers, Sequences, FiniteSets, TLC

VARIABLES
    instant,         \* monotonic clock read by RateLimiter::check_limit
    windows,         \* RateLimiter.windows: key -> Vec<Instant>
    agent_limit,     \* RateLimiter.agent_limit (pub field)
    service_limits,  \* RateLimiter.service_limits (pub field)
    chk,             \* direct callers of check_agent / check_service
    admitted,        \* history: <<key, t>> -> number of calls admitted with timestamp t
    limitedAt,       \* history: key -> latest timestamp of a rejected call
    watch,           \* the keys whose history is recorded
    last,            \* history: the call on the limiter that completed most recently
    solo,            \* reference limiter with one private counter per <<namespace, id>>
    now,             \* wall clock read by Utc::now(), in hours
    uuid,            \* number of ids Uuid::new_v4() has handed out
    users,           \* UserStore.users: user id -> User
    users_by_email,  \* UserStore.users_by_email: email -> user id
    users_file,      \* the users file on disk: the users it lists, by id
    reg,             \* the tasks inside register_user and UserStore::create_user
    created,         \* history: email -> number of create_user calls that returned Ok
    agents,          \* AgentStore.agents: agent id -> Agent
    sessions,        \* AgentStore.sessions: session id -> AgentSession
    rotated,         \* history: the agent ids that rotate_agent_key has replaced
    credentials,     \* CredentialManager.credentials: service id -> StoredCredential
    vault_file,      \* the credentials file on disk
    encryption_key,  \* CredentialManager.encryption_key
    vault_lock,      \* the task holding the write lock of CredentialManager.credentials, or 0
    upd,             \* direct callers of CredentialManager::update
    opened,          \* history: the call of load_from_file at startup
    saved,           \* history: the direct call of update that completed most recently
    fetched,         \* history: the direct call of get that completed most recently
    crypto,          \* a direct use of encrypt and decrypt
    settings,        \* AppState.settings: the Settings read from the environment
    direct,          \* a direct use of Agent::add_service and Agent::remove_service
    locks,           \* the RwLocks of UserStore and AgentStore: who holds them, who waits
    calls,           \* the tasks inside a store method or a grant / revoke handler
    resp,            \* the response of a lifecycle handler, until it is sent
    req              \* the proxied requests in flight

rlVars == <<instant, windows, agent_limit, service_limits, chk, admitted, limitedAt, watch,
           last, solo>>

userVars == <<users, users_by_email, users_file, reg, created>>
agentVars == <<agents, sessions, rotated>>
storeVars == <<userVars, agentVars>>

vaultVars == <<credentials, vault_file, encryption_key, vault_lock, upd, opened, saved, fetched>>

gwVars == <<now, uuid, storeVars, vaultVars, crypto, settings, direct, locks, calls, resp, req>>

vars == <<rlVars, gwVars>>

----------------------------------------------------------------------------
(* Bounds of the model *)

MaxInstant == 3      \* the monotonic clock runs 0..MaxInstant
MaxRequests == 2     \* largest `requests` of a rate-limit policy
MaxWindow == 2       \* largest `window` of a rate-limit policy, in ticks
MaxCallers == 2      \* tasks calling the rate limiter concurrently
MaxTime == 2         \* the wall clock runs 0..MaxTime
MaxUuid == 2         \* ids Uuid::new_v4() hands out in one run
MaxReqs == 1         \* proxied requests in flight at once
MaxNonce == 2        \* nonces the random generator can draw
MaxKeyLen == 2       \* longest key string drawn from the key alphabet
MaxUpdaters == 2     \* tasks calling the vault's update concurrently
MaxTasks == 2        \* tasks calling register_user or create_user concurrently
MaxServices == 2     \* longest list of services an agent is created with

Callers == 1..MaxCallers
Instants == 0..MaxInstant

NoValue == "none"

----------------------------------------------------------------------------
(* Rate limiter: gateway/rate_limiter.rs *)

RateLimitConfig == [requests : 1..MaxRequests, window : 1..MaxWindow]

\* impl Default for RateLimitConfig (100 requests / 60 s), scaled to the bounds
DefaultRateLimitConfig == [requests |-> MaxRequests, window |-> MaxWindow]

\* RateLimiter::new(): "payment" has the default budget (100 / 60 s) and "bank"
\* half of it (50 / 60 s), scaled to the bounds
NewServiceLimits ==
    [s \in {"payment", "bank"} |->
        IF s = "payment" THEN [requests |-> MaxRequests, window |-> MaxWindow]
                         ELSE [requests |-> MaxRequests \div 2, window |-> MaxWindow]]

\* RateLimiter::new(): the budget of an agent (200 / 60 s); scaled to the bounds
\* it is the largest policy, as in the code
NewAgentLimit == [requests |-> MaxRequests, window |-> MaxWindow]

\* format!("agent:{}", agent_id)
AgentKeyWrongPrefix(agent_id) == "service:" \o agent_id
AgentKey(agent_id) == "agent:" \o agent_id

\* format!("service:{}", service_id)
ServiceKey(service_id) == "service:" \o service_id

\* service_limits.get(service_id).cloned().unwrap_or_default()
ServiceLimit(limits, service_id) ==
    IF service_id \in DOMAIN limits THEN limits[service_id] ELSE DefaultRateLimitConfig

\* timestamps.retain(|&t| t > window_start)
Retain(timestamps, window_start) ==
    SelectSeq(timestamps, LAMBDA t : t > window_start)

\* windows.entry(key).or_insert_with(Vec::new)
Entry(w, key) == IF key \in DOMAIN w THEN w[key] ELSE <<>>

\* The part of check_limit that runs under the write lock, for a caller that
\* read the clock as `t` before it asked for the lock.
CheckLimitPushAlways(w, key, config, t) ==
    LET timestamps == Retain(Entry(w, key), t - config.window)
    IN  IF Len(timestamps) >= config.requests
        THEN [windows |-> (key :> Append(timestamps, t)) @@ w, ok |-> FALSE]
        ELSE [windows |-> (key :> Append(timestamps, t)) @@ w, ok |-> TRUE]
CheckLimitLocked(w, key, config, t) ==
    LET timestamps == Retain(Entry(w, key), t - config.window)
    IN  IF Len(timestamps) >= config.requests
        THEN [windows |-> (key :> timestamps) @@ w, ok |-> FALSE]
        ELSE [windows |-> (key :> Append(timestamps, t)) @@ w, ok |-> TRUE]

\* RateLimiter::remaining
Remaining(w, key, config, t) ==
    LET count == Len(Retain(Entry(w, key), t - config.window))
    IN  IF count >= config.requests THEN 0 ELSE config.requests - count

----------------------------------------------------------------------------
(* History of the limiter's decisions *)

Adm(key, t) == IF <<key, t>> \in DOMAIN admitted THEN admitted[<<key, t>>] ELSE 0

RECURSIVE SumAdm(_, _)
SumAdm(key, ts) ==
    IF ts = {} THEN 0
    ELSE LET t == CHOOSE x \in ts : TRUE
         IN  Adm(key, t) + SumAdm(key, ts \ {t})

\* latest timestamp at which a call on `key` was rejected, -1 when none was
LimitedAt(key) == IF key \in DOMAIN limitedAt THEN limitedAt[key] ELSE -1

Max(a, b) == IF a >= b THEN a ELSE b

\* number of calls on `key` admitted so far with a timestamp in (lo, hi]
AdmittedIn(key, lo, hi) == SumAdm(key, {t \in Instants : t > lo /\ t <= hi})

----------------------------------------------------------------------------
(* Direct use of the rate limiter by concurrent tasks *)

AgentIdStrings == {"a", "payment"}
ServiceIdStrings == {"payment"}

IdleCall == [pc |-> "idle", ns |-> NoValue, id |-> NoValue, key |-> NoValue,
             config |-> DefaultRateLimitConfig, t |-> 0]

NoCall == [ns |-> NoValue, id |-> NoValue, key |-> NoValue,
           config |-> DefaultRateLimitConfig, t |-> 0,
           res |-> NoValue, prior |-> 0, soloRes |-> NoValue]

Outcome(ok) == IF ok THEN "ok" ELSE "RateLimitExceeded"

\* check_agent up to the point where it waits for the write lock:
\* the key and policy are fixed and Instant::now() has been read.
CheckAgentCall(c, agent_id) ==
    /\ chk[c].pc = "idle"
    /\ chk' = [chk EXCEPT ![c] =
                  [pc |-> "lock", ns |-> "agent", id |-> agent_id,
                   key |-> AgentKey(agent_id), config |-> agent_limit, t |-> instant]]
    /\ UNCHANGED <<instant, windows, agent_limit, service_limits, admitted, limitedAt,
                   watch, last, solo, gwVars>>

\* check_service up to the point where it waits for the write lock
CheckServiceCall(c, service_id) ==
    /\ chk[c].pc = "idle"
    /\ chk' = [chk EXCEPT ![c] =
                  [pc |-> "lock", ns |-> "service", id |-> service_id,
                   key |-> ServiceKey(service_id),
                   config |-> ServiceLimit(service_limits, service_id), t |-> instant]]
    /\ UNCHANGED <<instant, windows, agent_limit, service_limits, admitted, limitedAt,
                   watch, last, solo, gwVars>>

\* the history of one decision of the limiter
Record(key, t, ok) ==
    /\ admitted' = IF ok /\ key \in watch
                   THEN (<<key, t>> :> (Adm(key, t) + 1)) @@ admitted
                   ELSE admitted
    /\ limitedAt' = IF ~ok /\ key \in watch
                    THEN (key :> Max(t, LimitedAt(key))) @@ limitedAt
                    ELSE limitedAt

\* check_limit from the acquisition of the write lock to its release
CheckLimitCall(c) ==
    /\ chk[c].pc = "lock"
    /\ LET me == chk[c]
           r == CheckLimitLocked(windows, me.key, me.config, me.t)
           s == CheckLimitLocked(solo, <<me.ns, me.id>>, me.config, me.t)
       IN  /\ windows' = r.windows
           /\ solo' = s.windows
           /\ chk' = [chk EXCEPT ![c] = IdleCall]
           /\ last' = [ns |-> me.ns, id |-> me.id, key |-> me.key, config |-> me.config,
                       t |-> me.t, res |-> Outcome(r.ok), soloRes |-> Outcome(s.ok),
                       prior |-> AdmittedIn(me.key, me.t - me.config.window, MaxInstant)]
           /\ Record(me.key, me.t, r.ok)
    /\ UNCHANGED <<instant, agent_limit, service_limits, watch, gwVars>>

\* the monotonic clock advances
TickInstant ==
    /\ instant < MaxInstant
    /\ instant' = instant + 1
    /\ UNCHANGED <<windows, agent_limit, service_limits, chk, admitted, limitedAt, watch,
                   last, solo, gwVars>>

----------------------------------------------------------------------------
(* Values shared by the stores *)

\* HashMap::insert and HashMap::remove
Put(f, k, v) == (k :> v) @@ f
Remove(f, k) == [x \in DOMAIN f \ {k} |-> f[x]]

\* Vec::contains
Contains(seq, x) == \E i \in 1..Len(seq) : seq[i] = x

\* Uuid::to_string
UuidString(id) == ToString(id)

NilUuid == 0          \* 00000000-0000-0000-0000-000000000000, never handed out

HoursPerDay == 24
SessionTtlHours == 1          \* SESSION_TTL_SECS default, 3600 s
REFRESH_BUFFER_HOURS == 6
RefreshedLifetimeHours == 1   \* refresh_token: expires_at = now + 1 h
SecsPerHour == 3600
DefaultRefreshBufferSecs == 300   \* TOKEN_REFRESH_BUFFER_SECS when unset

\* ServiceRegistry: the services file, read once and never changed
Services == {"payment", "bank"}
ServiceExists(service_id) == service_id \in Services

\* a handler's response: "ok" or the GatewayError kind, with the ids it returns
Response(op, kind, agent_id, session_id) ==
    [op |-> op, kind |-> kind, agent_id |-> agent_id, session_id |-> session_id]

\* No response waits to be sent.  Sending a response touches no store, so it
\* is taken before any other step: every handler step has this guard.
Settled == resp.op = NoValue /\ \A r \in DOMAIN req : req[r].pc # "done"

----------------------------------------------------------------------------
(* Agent and AgentSession: models/agent.rs *)

\* Agent::with_lifespan, with the id Uuid::new_v4() returned
AgentWithLifespan(id, lifespan_days, t) ==
    [id |-> id, allowed_services |-> << >>,
     expires_at |-> t + lifespan_days * HoursPerDay,
     lifespan_days |-> lifespan_days, created_at |-> t]

\* Agent::can_access_service
CanAccessServiceAny(agent, service_id) == TRUE
CanAccessService(agent, service_id) == Contains(agent.allowed_services, service_id)

\* Agent::is_expired and AgentSession::is_expired: Utc::now() > self.expires_at
IsExpired(x, t) == t > x.expires_at

\* Agent::add_service
AddServiceAlways(agent, service_id) ==
    [agent EXCEPT !.allowed_services = Append(@, service_id)]
AddService(agent, service_id) ==
    IF Contains(agent.allowed_services, service_id) THEN agent
    ELSE [agent EXCEPT !.allowed_services = Append(@, service_id)]

\* Agent::remove_service: the agent afterwards (true is returned when it differs)
RemoveService(agent, service_id) ==
    [agent EXCEPT !.allowed_services = SelectSeq(@, LAMBDA s : s # service_id)]

\* Agent::remove_service: the value returned
RemoveServiceReturns(agent, service_id) ==
    Len(RemoveService(agent, service_id).allowed_services) # Len(agent.allowed_services)

\* Agent::rotate, with the id Uuid::new_v4() returned
RotateInPlace(agent, new_id, t) ==
    [agent EXCEPT !.expires_at = t + agent.lifespan_days * HoursPerDay]
Rotate(agent, new_id, t) ==
    [agent EXCEPT !.id = new_id, !.expires_at = t + agent.lifespan_days * HoursPerDay]

(* Direct use of add_service and remove_service on one Agent value *)

NoDirectCall == [op |-> NoValue, service_id |-> NoValue]

\* the agent, the last call made on it with the agent before it and the value
\* it returned, and the call made before that
DirectUse(agent, call, before, returned, prev) ==
    [agent |-> agent, call |-> call, before |-> before, returned |-> returned,
     prev |-> prev]

AddServiceCall(service_id) ==
    /\ direct.agent.id # NilUuid
    /\ direct' = DirectUse(AddService(direct.agent, service_id),
                           [op |-> "add_service", service_id |-> service_id],
                           direct.agent, FALSE, direct.call)
    /\ UNCHANGED <<rlVars, now, uuid, storeVars, vaultVars, crypto, settings, locks, calls, resp, req>>

RemoveServiceCall(service_id) ==
    /\ direct.agent.id # NilUuid
    /\ direct' = DirectUse(RemoveService(direct.agent, service_id),
                           [op |-> "remove_service", service_id |-> service_id],
                           direct.agent, RemoveServiceReturns(direct.agent, service_id),
                           direct.call)
    /\ UNCHANGED <<rlVars, now, uuid, storeVars, vaultVars, crypto, settings, locks, calls, resp, req>>

----------------------------------------------------------------------------
(* AgentStore: storage/file_store.rs.  A failed save_to_file leaves the map  *)
(* changed and makes the operation return Internal.                         *)

\* AgentStore::create_agent and AgentStore::update_agent: insert under agent.id
UpdateAgentNotInserted(store, agent) == store
UpdateAgent(store, agent) == Put(store, agent.id, agent)

\* AgentStore::create_session, with the id Uuid::new_v4() returned
NewSessionUnbound(id, agent_id, t) ==
    [session_id |-> UuidString(id), agent_id |-> NilUuid, created_at |-> t,
     expires_at |-> t + SessionTtlHours, last_used_at |-> t]
NewSession(id, agent_id, t) ==
    [session_id |-> UuidString(id), agent_id |-> agent_id, created_at |-> t,
     expires_at |-> t + SessionTtlHours, last_used_at |-> t]

\* AgentStore::validate_session up to the agent lookup: get_session, then the
\* session's expiry
ValidateSessionGetSessionNoExpiry(ss, session_id, t) ==
    IF session_id \notin DOMAIN ss THEN "Unauthorized" ELSE "ok"
ValidateSessionGetSession(ss, session_id, t) ==
    IF session_id \notin DOMAIN ss THEN "Unauthorized"
    ELSE IF IsExpired(ss[session_id], t) THEN "SessionExpired"
    ELSE "ok"

\* AgentStore::validate_session from the agent lookup on: get_agent
ValidateSessionGetAgent(as, session) ==
    IF session.agent_id \notin DOMAIN as THEN "Internal" ELSE "ok"

----------------------------------------------------------------------------
(* Lifecycle handlers: routes/auth.rs.  `wr` tells which file write of the  *)
(* handler fails (0: none).  A handler on the agent store is one step: its  *)
(* store calls are taken together.  A registration is two steps, split      *)
(* where create_user gives up its read lock.                                *)

Blank(text) == \A i \in 1..Len(text) : text[i] = " "

Tasks == 1..MaxTasks

NoUser == [id |-> NilUuid, username |-> << >>, email |-> << >>, agents |-> << >>]
IdleTask == [pc |-> "idle", user |-> NoUser, result |-> NoValue]

\* User::new
NewUser(id, username, email) ==
    [id |-> id, username |-> username, email |-> email, agents |-> << >>]

Count(f, k) == IF k \in DOMAIN f THEN f[k] ELSE 0

\* create_user, the duplicate test under the read lock of users_by_email: the
\* call returns BadRequest, or goes on to wait for the write locks
CreateUserCheckSkipped(user) == [pc |-> "insert", user |-> user, result |-> NoValue]
CreateUserCheck(user) ==
    IF user.email \in DOMAIN users_by_email
    THEN [pc |-> "done", user |-> user, result |-> "BadRequest"]
    ELSE [pc |-> "insert", user |-> user, result |-> NoValue]

\* create_user called with any user value, up to the write locks
CreateUserCall(t, user) ==
    /\ reg[t].pc # "insert"
    /\ reg' = [reg EXCEPT ![t] = CreateUserCheck(user)]
    /\ UNCHANGED <<rlVars, settings, direct, locks, calls, now, uuid, users, users_by_email, users_file, created,
                   agentVars, vaultVars, crypto, resp, req>>

\* register_user: the validation, User::new, and create_user up to the write locks
RegisterUser(t, username, email) ==
    /\ reg[t].pc # "insert"
    /\ IF Blank(username) \/ Blank(email) \/ ~Contains(email, "@")
       THEN /\ reg' = [reg EXCEPT ![t] = [pc |-> "done", user |-> NoUser,
                                          result |-> "BadRequest"]]
            /\ UNCHANGED uuid
       ELSE /\ uuid < MaxUuid
            /\ uuid' = uuid + 1
            /\ reg' = [reg EXCEPT ![t] = CreateUserCheck(NewUser(uuid', username, email))]
    /\ UNCHANGED <<rlVars, settings, direct, locks, calls, now, users, users_by_email, users_file, created,
                   agentVars, vaultVars, crypto, resp, req>>

\* create_user under the write locks of users and users_by_email: the two
\* inserts and save_to_file; wr = 1 when fs::write fails
CreateUserInsertRolledBack(t, wr) ==
    /\ reg[t].pc = "insert"
    /\ LET user == reg[t].user
       IN  /\ users_by_email' = IF wr = 0 THEN Put(users_by_email, user.email, user.id)
                                 ELSE users_by_email
           /\ users' = IF wr = 0 THEN Put(users, user.id, user) ELSE users
           /\ users_file' = IF wr = 0 THEN users' ELSE users_file
           /\ created' = IF wr = 0
                         THEN Put(created, user.email, Count(created, user.email) + 1)
                         ELSE created
           /\ reg' = [reg EXCEPT ![t] = [pc |-> "done", user |-> user,
                                         result |-> IF wr = 0 THEN "ok" ELSE "Internal"]]
    /\ UNCHANGED <<rlVars, settings, direct, locks, calls, now, uuid, agentVars, vaultVars, crypto, resp, req>>
CreateUserInsert(t, wr) ==
    /\ reg[t].pc = "insert"
    /\ LET user == reg[t].user
       IN  /\ users_by_email' = Put(users_by_email, user.email, user.id)
           /\ users' = Put(users, user.id, user)
           /\ users_file' = IF wr = 0 THEN users' ELSE users_file
           /\ created' = IF wr = 0
                         THEN Put(created, user.email, Count(created, user.email) + 1)
                         ELSE created
           /\ reg' = [reg EXCEPT ![t] = [pc |-> "done", user |-> user,
                                         result |-> IF wr = 0 THEN "ok" ELSE "Internal"]]
    /\ UNCHANGED <<rlVars, settings, direct, locks, calls, now, uuid, agentVars, vaultVars, crypto, resp, req>>

\* get_user
GetUser(id) == IF id \in DOMAIN users THEN {users[id]} ELSE {}

\* update_user called with any user value: the insert under the write lock of
\* users and save_to_file
UpdateUserCall(user, wr) ==
    /\ users' = Put(users, user.id, user)
    /\ users_file' = IF wr = 0 THEN users' ELSE users_file
    /\ UNCHANGED <<rlVars, settings, direct, locks, calls, now, uuid, users_by_email, reg, created, agentVars, vaultVars,
                   crypto, resp, req>>

\* UserStore::load_from_file on a file that lists `file`
LoadUsers(file) ==
    /\ users = file
    /\ users_by_email = [email \in {file[id].email : id \in DOMAIN file} |->
                            CHOOSE id \in DOMAIN file : file[id].email = email]
    /\ users_file = file
    /\ reg = [t \in Tasks |-> IdleTask]
    /\ created = << >>

\* the first service of the request that the registry does not know
FirstUnknownSkipped(services) == 0
FirstUnknown(services) ==
    IF \E i \in 1..Len(services) : ~ServiceExists(services[i])
    THEN CHOOSE i \in 1..Len(services) :
             /\ ~ServiceExists(services[i])
             /\ \A j \in 1..(i - 1) : ServiceExists(services[j])
    ELSE 0

\* User::add_agent
AddAgent(user, agent_id) ==
    IF Contains(user.agents, agent_id) THEN user
    ELSE [user EXCEPT !.agents = Append(@, agent_id)]

\* create_agent_access
CreateAgentAccess(user_id, services, lifespan_days, wr) ==
    /\ Settled
    /\ IF user_id \notin DOMAIN users
       THEN /\ resp' = Response("create_agent", "NotFound", NilUuid, NoValue)
            /\ UNCHANGED <<uuid, users, users_file, agents, sessions>>
       ELSE IF FirstUnknown(services) # 0 \/ services = << >>
       THEN /\ resp' = Response("create_agent", "BadRequest", NilUuid, NoValue)
            /\ UNCHANGED <<uuid, users, users_file, agents, sessions>>
       ELSE LET id == uuid + 1
                sid == uuid + 2
                agent == [AgentWithLifespan(id, lifespan_days, now)
                              EXCEPT !.allowed_services = services]
            IN  /\ sid <= MaxUuid
                /\ agents' = UpdateAgent(agents, agent)
                /\ IF wr = 1
                   THEN /\ resp' = Response("create_agent", "Internal", NilUuid, NoValue)
                        /\ uuid' = id
                        /\ UNCHANGED <<users, users_file, sessions>>
                   ELSE /\ users' = Put(users, user_id, AddAgent(users[user_id], id))
                        /\ users_file' = IF wr = 2 THEN users_file ELSE users'
                        /\ IF wr = 2
                           THEN /\ resp' = Response("create_agent", "Internal",
                                                    NilUuid, NoValue)
                                /\ uuid' = id
                                /\ UNCHANGED sessions
                           ELSE /\ uuid' = sid
                                /\ sessions' = Put(sessions, UuidString(sid),
                                                   NewSession(sid, id, now))
                                /\ resp' = IF wr = 3
                                           THEN Response("create_agent", "Internal",
                                                         NilUuid, NoValue)
                                           ELSE Response("create_agent", "ok", id,
                                                         UuidString(sid))
    /\ UNCHANGED <<rlVars, settings, direct, locks, calls, now, users_by_email, reg, created, rotated, vaultVars, crypto,
                   req>>

\* rotate_agent_key
RotateAgentKey(agent_id, wr) ==
    /\ Settled
    /\ IF agent_id \notin DOMAIN agents
       THEN /\ resp' = Response("rotate", "NotFound", NilUuid, NoValue)
            /\ UNCHANGED <<uuid, agents, sessions, rotated>>
       ELSE LET new_id == uuid + 1
                sid == uuid + 2
                agent == Rotate(agents[agent_id], new_id, now)
            IN  /\ sid <= MaxUuid
                /\ agents' = UpdateAgent(agents, agent)
                /\ rotated' = IF wr = 0 THEN rotated \cup {agent_id} ELSE rotated
                /\ IF wr = 1
                   THEN /\ resp' = Response("rotate", "Internal", NilUuid, NoValue)
                        /\ uuid' = new_id
                        /\ UNCHANGED sessions
                   ELSE /\ uuid' = sid
                        /\ sessions' = Put(sessions, UuidString(sid),
                                           NewSession(sid, new_id, now))
                        /\ resp' = IF wr = 2
                                   THEN Response("rotate", "Internal", NilUuid, NoValue)
                                   ELSE Response("rotate", "ok", new_id, UuidString(sid))
    /\ UNCHANGED <<rlVars, settings, direct, locks, calls, now, userVars, vaultVars, crypto, req>>

\* grant_service_access
GrantServiceAccess(agent_id, service_id, wr) ==
    /\ Settled
    /\ IF ~ServiceExists(service_id)
       THEN /\ resp' = Response("grant", "BadRequest", NilUuid, NoValue)
            /\ UNCHANGED agents
       ELSE IF agent_id \notin DOMAIN agents
       THEN /\ resp' = Response("grant", "NotFound", NilUuid, NoValue)
            /\ UNCHANGED agents
       ELSE IF CanAccessService(agents[agent_id], service_id)
       THEN /\ resp' = Response("grant", "BadRequest", NilUuid, NoValue)
            /\ UNCHANGED agents
       ELSE /\ agents' = UpdateAgent(agents, AddService(agents[agent_id], service_id))
            /\ resp' = Response("grant", IF wr = 1 THEN "Internal" ELSE "ok",
                                agent_id, NoValue)
    /\ UNCHANGED <<rlVars, settings, direct, locks, calls, now, uuid, userVars, sessions, rotated, vaultVars, crypto, req>>

\* revoke_service_access
RevokeServiceAccess(agent_id, service_id, wr) ==
    /\ Settled
    /\ IF agent_id \notin DOMAIN agents
       THEN /\ resp' = Response("revoke", "NotFound", NilUuid, NoValue)
            /\ UNCHANGED agents
       ELSE IF RemoveService(agents[agent_id], service_id) = agents[agent_id]
       THEN /\ resp' = Response("revoke", "BadRequest", NilUuid, NoValue)
            /\ UNCHANGED agents
       ELSE /\ agents' = UpdateAgent(agents, RemoveService(agents[agent_id], service_id))
            /\ resp' = Response("revoke", IF wr = 1 THEN "Internal" ELSE "ok",
                                agent_id, NoValue)
    /\ UNCHANGED <<rlVars, settings, direct, locks, calls, now, uuid, userVars, sessions, rotated, vaultVars, crypto, req>>

\* AgentStore::delete_agent
DeleteAgent(agent_id, wr) ==
    /\ Settled
    /\ agent_id \in DOMAIN agents
    /\ agents' = Remove(agents, agent_id)
    /\ resp' = Response("delete_agent", IF wr = 1 THEN "Internal" ELSE "ok",
                        agent_id, NoValue)
    /\ UNCHANGED <<rlVars, settings, direct, locks, calls, now, uuid, userVars, sessions, rotated, vaultVars, crypto, req>>

\* the wall clock advances
TickNow ==
    /\ Settled
    /\ now < MaxTime
    /\ now' = now + 1
    /\ UNCHANGED <<rlVars, settings, direct, locks, calls, uuid, storeVars, vaultVars, crypto, resp, req>>

----------------------------------------------------------------------------
(* Credentials and token refresh: config/credentials.rs, gateway/token_refresh.rs *)
(* An Option is the empty set or a singleton.                                     *)

StoredCredential(service_id, access_token, refresh_token, expires_at, scopes) ==
    [service_id |-> service_id, access_token |-> access_token,
     refresh_token |-> refresh_token, expires_at |-> expires_at, scopes |-> scopes]

NoCredential == StoredCredential(NoValue, NoValue, {}, {}, << >>)

\* needs_refresh: Utc::now() + 6 h > expires_at, false without an expiry
NeedsRefreshSettingsBuffer(credential, t) ==
    \E expires_at \in credential.expires_at :
        t * SecsPerHour + settings.token_refresh_buffer_secs > expires_at * SecsPerHour
NeedsRefresh(credential, t) ==
    \E expires_at \in credential.expires_at : t + REFRESH_BUFFER_HOURS > expires_at

\* refresh_token: None without a refresh token, else the clone that expires in 1 h
RefreshTokenPastBuffer(credential, t) ==
    IF credential.refresh_token = {} THEN {}
    ELSE {[credential EXCEPT !.expires_at = {t + REFRESH_BUFFER_HOURS + RefreshedLifetimeHours}]}
RefreshToken(credential, t) ==
    IF credential.refresh_token = {} THEN {}
    ELSE {[credential EXCEPT !.expires_at = {t + RefreshedLifetimeHours}]}

\* the credentials file as loaded at startup
InitialVaults ==
    { [s \in {"payment"} |->
          StoredCredential(s, "tok-payment", {"rt-payment"}, {3}, <<"read">>)],
      [s \in {"payment", "bank"} |->
          IF s = "payment" THEN StoredCredential(s, "tok-payment", {}, {3}, <<"read">>)
                           ELSE StoredCredential(s, "tok-bank", {"rt-bank"}, {30}, << >>)] }

----------------------------------------------------------------------------
(* Encryption of the stored tokens: gateway/encryption.rs.  A key string is *)
(* the sequence of its bytes.  A string of the credentials file is either   *)
(* the base64 of a nonce followed by an AES-256-GCM output, or a text that  *)
(* is no such thing.                                                        *)

KeyBytes == 32        \* [u8; 32], the key of AES-256

Nonces == 1..MaxNonce

Ok(value) == [kind |-> "ok", value |-> value]
Err(kind) == [kind |-> kind, value |-> NoValue]

\* derive_key: the password's bytes, repeated cyclically, cut at 32 bytes; the
\* key stays zero for the empty password
DeriveKey(password) ==
    [i \in 1..KeyBytes |->
        IF Len(password) = 0 THEN 0 ELSE password[((i - 1) % Len(password)) + 1]]

\* Aes256Gcm::encrypt: ciphertext and tag, which open under the key and the
\* nonce that sealed them and under no other
Seal(key_bytes, nonce, plaintext) ==
    [key |-> key_bytes, nonce |-> nonce, plaintext |-> plaintext]

\* Aes256Gcm::decrypt
Open(key_bytes, nonce, ciphertext) ==
    IF ciphertext.key = key_bytes /\ ciphertext.nonce = nonce
    THEN {ciphertext.plaintext}
    ELSE {}

\* a string that STANDARD.decode rejects, or that decodes to fewer than
\* NONCE_SIZE bytes, or to bytes that no key opens
Plain(text) == [text |-> text, data |-> {}]

\* STANDARD.encode of the nonce followed by the ciphertext
Encode(nonce, ciphertext) ==
    [text |-> NoValue, data |-> {[nonce |-> nonce, ciphertext |-> ciphertext]}]

\* STANDARD.decode, the length test and split_at(NONCE_SIZE)
Decode(string) == string.data

\* encrypt, with the nonce that thread_rng() draws
Encrypt(plaintext, key, nonce) == Encode(nonce, Seal(DeriveKey(key), nonce, plaintext))

\* decrypt
DecryptUnderFreshNonce(encrypted, key) ==
    IF Decode(encrypted) = {} THEN Err("Internal")
    ELSE LET data == CHOOSE d \in Decode(encrypted) : TRUE
             plaintext == Open(DeriveKey(key), data.nonce + 1, data.ciphertext)
         IN  IF plaintext = {} THEN Err("Internal")
             ELSE Ok(CHOOSE text \in plaintext : TRUE)
Decrypt(encrypted, key) ==
    IF Decode(encrypted) = {} THEN Err("Internal")
    ELSE LET data == CHOOSE d \in Decode(encrypted) : TRUE
             plaintext == Open(DeriveKey(key), data.nonce, data.ciphertext)
         IN  IF plaintext = {} THEN Err("Internal")
             ELSE Ok(CHOOSE text \in plaintext : TRUE)

(* Direct use of encrypt and decrypt: a plaintext is encrypted under `key`  *)
(* and the result decrypted under `key` and under `other`.                  *)

KeyAlphabet == {0, 97, 98}

Repeat(string, n) == [i \in 1..n |-> string[((i - 1) % Len(string)) + 1]]

ShortKeys == UNION {[1..n -> KeyAlphabet] : n \in 0..MaxKeyLen}

\* the key strings tried: every short string, every short string written
\* twice, a string of exactly 32 bytes and its extensions by one byte
KeyStrings ==
    ShortKeys
        \cup {key \o key : key \in ShortKeys}
        \cup {Repeat(<<97, 98>>, KeyBytes)}
        \cup {Repeat(<<97, 98>>, KeyBytes) \o <<byte>> : byte \in KeyAlphabet}

Plaintexts == {"", "tok-payment"}

IdleCrypto ==
    [pc |-> "idle", plaintext |-> NoValue, key |-> << >>, other |-> << >>,
     encrypted |-> Plain(NoValue), decrypted |-> Err(NoValue), crossed |-> Err(NoValue)]

EncryptCall(nonce) ==
    /\ crypto.pc = "encrypt"
    /\ crypto' = [crypto EXCEPT !.pc = "decrypt",
                                !.encrypted = Encrypt(crypto.plaintext, crypto.key, nonce)]
    /\ UNCHANGED <<rlVars, settings, direct, locks, calls, now, uuid, storeVars, vaultVars, resp, req>>

DecryptCall ==
    /\ crypto.pc = "decrypt"
    /\ crypto' = [crypto EXCEPT !.pc = "cross",
                                !.decrypted = Decrypt(crypto.encrypted, crypto.key)]
    /\ UNCHANGED <<rlVars, settings, direct, locks, calls, now, uuid, storeVars, vaultVars, resp, req>>

DecryptOtherCall ==
    /\ crypto.pc = "cross"
    /\ crypto' = [crypto EXCEPT !.pc = "done",
                                !.crossed = Decrypt(crypto.encrypted, crypto.other)]
    /\ UNCHANGED <<rlVars, settings, direct, locks, calls, now, uuid, storeVars, vaultVars, resp, req>>

----------------------------------------------------------------------------
(* The credential vault: config/credentials.rs.  The file is a status (read *)
(* and parsed, unreadable, or no JSON of a CredentialsFile) and the         *)
(* sequence of its records.                                                 *)

CredentialsFile(status, records) == [status |-> status, credentials |-> records]

\* the nonces one rewrite of the file draws for the access tokens and for the
\* refresh tokens
Rnd == [access_token : Nonces, refresh_token : Nonces]

\* the orders in which HashMap::values() can yield the entries
Orders(creds) ==
    {order \in [1..Cardinality(DOMAIN creds) -> DOMAIN creds] :
        \A s \in DOMAIN creds : \E i \in DOMAIN order : order[i] = s}

\* encrypt_credential
EncryptCredentialNoRefreshToken(cred, key, nonces) ==
    [service_id |-> cred.service_id,
     access_token |-> Encrypt(cred.access_token, key, nonces.access_token),
     refresh_token |-> {},
     expires_at |-> cred.expires_at, scopes |-> cred.scopes, encrypted |-> TRUE]
EncryptCredential(cred, key, nonces) ==
    [service_id |-> cred.service_id,
     access_token |-> Encrypt(cred.access_token, key, nonces.access_token),
     refresh_token |-> {Encrypt(rt, key, nonces.refresh_token) : rt \in cred.refresh_token},
     expires_at |-> cred.expires_at, scopes |-> cred.scopes, encrypted |-> TRUE]

\* a record written by hand, with "encrypted": false or without the flag
PlaintextCredential(cred) ==
    [service_id |-> cred.service_id,
     access_token |-> Plain(cred.access_token),
     refresh_token |-> {Plain(rt) : rt \in cred.refresh_token},
     expires_at |-> cred.expires_at, scopes |-> cred.scopes, encrypted |-> FALSE]

\* save_to_file: every credential encrypted, the whole file rewritten
SaveToFile(creds, key, rnd, order) ==
    CredentialsFile("ok", [i \in DOMAIN order |->
                              EncryptCredential(creds[order[i]], key, rnd)])

\* load_from_file, the body of the loop: one record of the file
DecryptRecordSkipFlag(enc, key) ==
    Ok(StoredCredential(enc.service_id, enc.access_token.text,
                        {rt.text : rt \in enc.refresh_token},
                        enc.expires_at, enc.scopes))
DecryptRecord(enc, key) ==
    LET access_token == Decrypt(enc.access_token, key)
        refresh_token == {Decrypt(rt, key) : rt \in enc.refresh_token}
    IN  IF ~enc.encrypted
        THEN Ok(StoredCredential(enc.service_id, enc.access_token.text,
                                 {rt.text : rt \in enc.refresh_token},
                                 enc.expires_at, enc.scopes))
        ELSE IF access_token.kind # "ok" THEN Err(access_token.kind)
        ELSE IF \E rt \in refresh_token : rt.kind # "ok" THEN Err("Internal")
        ELSE Ok(StoredCredential(enc.service_id, access_token.value,
                                 {rt.value : rt \in refresh_token},
                                 enc.expires_at, enc.scopes))

\* load_from_file, the loop: the records are inserted in the file's order and
\* the first token that does not decrypt ends the load
RECURSIVE LoadRecords(_, _, _)
LoadRecords(records, key, creds) ==
    IF records = << >> THEN Ok(creds)
    ELSE LET decrypted == DecryptRecord(Head(records), key)
         IN  IF decrypted.kind # "ok" THEN Err(decrypted.kind)
             ELSE LoadRecords(Tail(records), key,
                              Put(creds, decrypted.value.service_id, decrypted.value))

\* load_from_file up to the migration: read_to_string, serde_json::from_str, the loop
ReadVault(file, key) ==
    IF file.status # "ok" THEN Err("Internal")
    ELSE LoadRecords(file.credentials, key, << >>)

\* needs_migration after the loop
NeedsMigration(file) ==
    \E i \in DOMAIN file.credentials : ~file.credentials[i].encrypted

NotOpened == [kind |-> NoValue, file |-> CredentialsFile(NoValue, << >>), wr |-> 0]
NoUpdate == [kind |-> NoValue, credential |-> NoCredential, before |-> << >>]
NoGet == [service_id |-> NoValue, credential |-> {}, on_disk |-> {}]
IdleUpdate == [pc |-> "idle", credential |-> NoCredential, before |-> << >>]

Updaters == 1..MaxUpdaters

\* load_from_file at startup; wr = 1 when the write of the migrated file fails,
\* wr = 2 when encrypt or serde_json::to_string_pretty fails before it
LoadFromFileFailing(key, rnd, wr) ==
    /\ opened.kind = NoValue
    /\ LET loaded == ReadVault(vault_file, key)
           failed == loaded.kind = "ok" /\ NeedsMigration(vault_file) /\ wr # 0
       IN  /\ opened' = [kind |-> IF failed THEN "Internal" ELSE loaded.kind,
                         file |-> vault_file, wr |-> wr]
           /\ IF loaded.kind # "ok" \/ failed
              THEN UNCHANGED <<credentials, encryption_key, vault_file>>
              ELSE /\ credentials' = loaded.value
                   /\ encryption_key' = key
                   /\ IF NeedsMigration(vault_file)
                      THEN \E order \in Orders(loaded.value) :
                               vault_file' = SaveToFile(loaded.value, key, rnd, order)
                      ELSE UNCHANGED vault_file
    /\ UNCHANGED <<rlVars, settings, direct, locks, calls, now, uuid, storeVars, vault_lock, upd, saved, fetched, crypto,
                   resp, req>>
LoadFromFile(key, rnd, wr) ==
    /\ opened.kind = NoValue
    /\ LET loaded == ReadVault(vault_file, key)
       IN  /\ opened' = [kind |-> loaded.kind, file |-> vault_file, wr |-> wr]
           /\ IF loaded.kind # "ok"
              THEN UNCHANGED <<credentials, encryption_key, vault_file>>
              ELSE /\ credentials' = loaded.value
                   /\ encryption_key' = key
                   /\ IF NeedsMigration(vault_file) /\ wr = 0
                      THEN \E order \in Orders(loaded.value) :
                               vault_file' = SaveToFile(loaded.value, key, rnd, order)
                      ELSE UNCHANGED vault_file
    /\ UNCHANGED <<rlVars, settings, direct, locks, calls, now, uuid, storeVars, vault_lock, upd, saved, fetched, crypto,
                   resp, req>>

\* update, up to the rewrite of the file: the write lock and the insert
UpdateCall(u, credential) ==
    /\ opened.kind = "ok"
    /\ upd[u].pc = "idle"
    /\ vault_lock = 0
    /\ vault_lock' = u
    /\ credentials' = Put(credentials, credential.service_id, credential)
    /\ upd' = [upd EXCEPT ![u] = [pc |-> "save", credential |-> credential,
                                  before |-> credentials]]
    /\ UNCHANGED <<rlVars, settings, direct, locks, calls, now, uuid, storeVars, vault_file, encryption_key, opened,
                   saved, fetched, crypto, resp, req>>

\* update, save_to_file under the write lock; wr = 1 when fs::write fails
UpdateSave(u, rnd, wr) ==
    /\ upd[u].pc = "save"
    /\ vault_lock = u
    /\ IF wr = 0
       THEN \E order \in Orders(credentials) :
                vault_file' = SaveToFile(credentials, encryption_key, rnd, order)
       ELSE UNCHANGED vault_file
    /\ vault_lock' = 0
    /\ saved' = [kind |-> IF wr = 0 THEN "ok" ELSE "Internal",
                 credential |-> upd[u].credential, before |-> upd[u].before]
    /\ upd' = [upd EXCEPT ![u] = IdleUpdate]
    /\ UNCHANGED <<rlVars, settings, direct, locks, calls, now, uuid, storeVars, credentials, encryption_key, opened,
                   fetched, crypto, resp, req>>

Lookup(creds, service_id) ==
    IF service_id \in DOMAIN creds THEN {creds[service_id]} ELSE {}

\* get, under the read lock; the history keeps what the file held at that moment
GetCall(service_id) ==
    /\ opened.kind = "ok"
    /\ vault_lock = 0
    /\ LET disk == ReadVault(vault_file, encryption_key)
       IN  fetched' = [service_id |-> service_id,
                    credential |-> Lookup(credentials, service_id),
                    on_disk |-> IF disk.kind = "ok" THEN Lookup(disk.value, service_id)
                                ELSE {}]
    /\ UNCHANGED <<rlVars, settings, direct, locks, calls, now, uuid, storeVars, credentials, vault_file, encryption_key,
                   vault_lock, upd, opened, saved, crypto, resp, req>>

----------------------------------------------------------------------------
(* The admission pipeline: routes/proxy.rs, proxy_request.  One action per   *)
(* stretch of the handler between two points where it can be suspended.     *)

Reqs == 1..MaxReqs

NoAgent == [id |-> NilUuid, allowed_services |-> << >>, expires_at |-> 0,
            lifespan_days |-> 0, created_at |-> 0]
NoSession == [session_id |-> NoValue, agent_id |-> NilUuid, created_at |-> 0,
              expires_at |-> 0, last_used_at |-> 0]

\* what the store said about the request when each admission step ran
NoFacts == [session_found |-> FALSE, session_live |-> FALSE, agent_known |-> FALSE,
            key_rotated |-> FALSE, agent_live |-> FALSE, entitled |-> FALSE]

IdleRequest ==
    [pc |-> "idle", header |-> NoValue, service |-> NoValue, method |-> NoValue,
     session |-> NoSession, agent |-> NoAgent, t |-> 0,
     credential |-> NoCredential, refreshed |-> NoCredential,
     result |-> NoValue, upstream |-> 0, status |-> 0,
     headers |-> << >>, sent |-> << >>, token |-> NoValue, body |-> NoValue,
     answer |-> NoValue, needs_refresh |-> FALSE, fetched_at |-> 0,
     steps |-> << >>, effects |-> << >>, facts |-> NoFacts, before |-> << >>]

Methods == {"GET", "POST", "PUT", "DELETE", "PATCH"}

\* the request ends with `kind`; what stays is the response and the history
Finish(request, kind) ==
    [IdleRequest EXCEPT !.pc = "done", !.result = kind,
                        !.header = request.header, !.service = request.service,
                        !.upstream = request.upstream,
                        !.headers = request.headers, !.sent = request.sent,
                        !.token = request.token, !.answer = request.answer,
                        !.steps = request.steps, !.effects = request.effects,
                        !.facts = request.facts, !.before = request.before]

\* steps 1-2: the X-Session-ID header, then validate_session up to get_session
\* and the session's expiry
ProxyRequestTouchesSession(r, header, service) ==
    /\ Settled
    /\ req[r].pc = "idle"
    /\ LET found == header \in DOMAIN sessions
           kind == ValidateSessionGetSession(sessions, header, now)
           start == [IdleRequest EXCEPT !.header = header, !.service = service,
                                        !.steps = <<"session_extraction">>]
           begun == [start EXCEPT !.steps = Append(@, "validate_session"),
                                  !.facts.session_found = found,
                                  !.facts.session_live =
                                      found /\ ~(now > sessions[header].expires_at)]
       IN  /\ req' = [req EXCEPT ![r] =
                  IF header = NoValue THEN Finish(start, "Unauthorized")
                  ELSE IF kind # "ok" THEN Finish(begun, kind)
                  ELSE [begun EXCEPT !.pc = "get_agent", !.session = sessions[header]]]
           /\ sessions' = IF header # NoValue /\ kind = "ok"
                          THEN [sessions EXCEPT ![header].last_used_at = now,
                                                ![header].expires_at = now + SessionTtlHours]
                          ELSE sessions
    /\ UNCHANGED <<rlVars, settings, direct, locks, calls, now, uuid, userVars, agents, rotated, vaultVars, crypto,
                   resp>>
ProxyRequest(r, header, service) ==
    /\ Settled
    /\ req[r].pc = "idle"
    /\ LET start == [IdleRequest EXCEPT !.header = header, !.service = service,
                                        !.steps = <<"session_extraction">>]
           found == header \in DOMAIN sessions
           begun == [start EXCEPT !.steps = Append(@, "validate_session"),
                                  !.facts.session_found = found,
                                  !.facts.session_live =
                                      found /\ ~(now > sessions[header].expires_at)]
           kind == ValidateSessionGetSession(sessions, header, now)
       IN  req' = [req EXCEPT ![r] =
               IF header = NoValue THEN Finish(start, "Unauthorized")
               ELSE IF kind # "ok" THEN Finish(begun, kind)
               ELSE [begun EXCEPT !.pc = "get_agent", !.session = sessions[header]]]
    /\ UNCHANGED <<rlVars, settings, direct, locks, calls, now, uuid, storeVars, vaultVars, crypto, resp>>

\* steps 2-5: validate_session's get_agent, the access key's expiry, the
\* entitlement, and check_agent up to its wait for the limiter's lock
AdmitAgentEntitlementFirst(r) ==
    /\ Settled
    /\ req[r].pc = "get_agent"
    /\ LET me == req[r]
           id == me.session.agent_id
           known == id \in DOMAIN agents
           agent == agents[id]
           seen == [me EXCEPT !.facts.agent_known = known,
                              !.facts.key_rotated = id \in rotated,
                              !.facts.agent_live = known /\ ~(now > agent.expires_at),
                              !.facts.entitled =
                                  known /\ \E i \in 1..Len(agent.allowed_services) :
                                               agent.allowed_services[i] = me.service]
           s3 == [seen EXCEPT !.agent = agent, !.steps = Append(@, "entitlement")]
           s4 == [s3 EXCEPT !.steps = Append(@, "agent_expiry")]
           s5 == [s4 EXCEPT !.steps = Append(@, "check_agent"), !.t = instant,
                            !.pc = "check_agent"]
       IN  req' = [req EXCEPT ![r] =
               IF ValidateSessionGetAgent(agents, me.session) # "ok"
                    THEN Finish(seen, ValidateSessionGetAgent(agents, me.session))
               ELSE IF ~CanAccessService(agent, me.service)
                    THEN Finish(s3, "ServiceNotAllowed")
               ELSE IF IsExpired(agent, now) THEN Finish(s4, "Unauthorized")
               ELSE s5]
    /\ UNCHANGED <<rlVars, settings, direct, locks, calls, now, uuid, storeVars, vaultVars, crypto, resp>>
AdmitAgent(r) ==
    /\ Settled
    /\ req[r].pc = "get_agent"
    /\ LET me == req[r]
           id == me.session.agent_id
           known == id \in DOMAIN agents
           agent == agents[id]
           seen == [me EXCEPT !.facts.agent_known = known,
                              !.facts.key_rotated = id \in rotated,
                              !.facts.agent_live = known /\ ~(now > agent.expires_at),
                              !.facts.entitled =
                                  known /\ \E i \in 1..Len(agent.allowed_services) :
                                               agent.allowed_services[i] = me.service]
           s3 == [seen EXCEPT !.agent = agent, !.steps = Append(@, "agent_expiry")]
           s4 == [s3 EXCEPT !.steps = Append(@, "entitlement")]
           s5 == [s4 EXCEPT !.steps = Append(@, "check_agent"), !.t = instant,
                            !.pc = "check_agent"]
       IN  req' = [req EXCEPT ![r] =
               IF ValidateSessionGetAgent(agents, me.session) # "ok"
                    THEN Finish(seen, ValidateSessionGetAgent(agents, me.session))
               ELSE IF IsExpired(agent, now) THEN Finish(s3, "Unauthorized")
               ELSE IF ~CanAccessService(agent, me.service)
                    THEN Finish(s4, "ServiceNotAllowed")
               ELSE s5]
    /\ UNCHANGED <<rlVars, settings, direct, locks, calls, now, uuid, storeVars, vaultVars, crypto, resp>>

\* step 5: check_agent under the limiter's lock, then check_service up to its
\* wait for the lock
CheckAgentCountsService(r) ==
    /\ Settled
    /\ req[r].pc = "check_agent"
    /\ LET me == req[r]
           c == CheckLimitLocked(windows, AgentKey(UuidString(me.agent.id)),
                                 agent_limit, me.t)
       IN  /\ windows' = Put(c.windows, ServiceKey(me.service),
                          Append(Entry(c.windows, ServiceKey(me.service)), me.t))
           /\ req' = [req EXCEPT ![r] =
                  IF ~c.ok THEN Finish([me EXCEPT !.before = windows], "RateLimitExceeded")
                  ELSE [me EXCEPT !.effects = Append(@, "agent_timestamp"),
                                  !.steps = Append(@, "check_service"),
                                  !.t = instant, !.pc = "check_service"]]
    /\ UNCHANGED <<instant, agent_limit, service_limits, settings, direct, locks, calls, chk, admitted, limitedAt, watch,
                   last, solo, now, uuid, storeVars, vaultVars, crypto, resp>>
CheckAgent(r) ==
    /\ Settled
    /\ req[r].pc = "check_agent"
    /\ LET me == req[r]
           c == CheckLimitLocked(windows, AgentKey(UuidString(me.agent.id)),
                                 agent_limit, me.t)
       IN  /\ windows' = c.windows
           /\ req' = [req EXCEPT ![r] =
                  IF ~c.ok THEN Finish([me EXCEPT !.before = windows], "RateLimitExceeded")
                  ELSE [me EXCEPT !.effects = Append(@, "agent_timestamp"),
                                  !.steps = Append(@, "check_service"),
                                  !.t = instant, !.pc = "check_service"]]
    /\ UNCHANGED <<instant, agent_limit, service_limits, settings, direct, locks, calls, chk, admitted, limitedAt, watch,
                   last, solo, now, uuid, storeVars, vaultVars, crypto, resp>>

\* steps 5-6: check_service under the limiter's lock, then the registry lookup
CheckServiceRollsBack(r) ==
    /\ Settled
    /\ req[r].pc = "check_service"
    /\ LET me == req[r]
           key == AgentKey(UuidString(me.agent.id))
           c == CheckLimitLocked(windows, ServiceKey(me.service),
                                 ServiceLimit(service_limits, me.service), me.t)
           counted == [me EXCEPT !.effects = Append(@, "service_timestamp"),
                                 !.steps = Append(@, "service_lookup")]
       IN  /\ windows' = IF c.ok THEN c.windows
                         ELSE Put(c.windows, key,
                                  SubSeq(Entry(c.windows, key), 1,
                                         Len(Entry(c.windows, key)) - 1))
           /\ req' = [req EXCEPT ![r] =
                  IF ~c.ok THEN Finish(me, "RateLimitExceeded")
                  ELSE IF ~ServiceExists(me.service) THEN Finish(counted, "NotFound")
                  ELSE [counted EXCEPT !.steps = Append(@, "credential_fetch"),
                                       !.pc = "credentials"]]
    /\ UNCHANGED <<instant, agent_limit, service_limits, settings, direct, locks, calls, chk, admitted, limitedAt, watch,
                   last, solo, now, uuid, storeVars, vaultVars, crypto, resp>>
CheckService(r) ==
    /\ Settled
    /\ req[r].pc = "check_service"
    /\ LET me == req[r]
           c == CheckLimitLocked(windows, ServiceKey(me.service),
                                 ServiceLimit(service_limits, me.service), me.t)
           counted == [me EXCEPT !.effects = Append(@, "service_timestamp"),
                                 !.steps = Append(@, "service_lookup")]
       IN  /\ windows' = c.windows
           /\ req' = [req EXCEPT ![r] =
                  IF ~c.ok THEN Finish(me, "RateLimitExceeded")
                  ELSE IF ~ServiceExists(me.service) THEN Finish(counted, "NotFound")
                  ELSE [counted EXCEPT !.steps = Append(@, "credential_fetch"),
                                       !.pc = "credentials"]]
    /\ UNCHANGED <<instant, agent_limit, service_limits, settings, direct, locks, calls, chk, admitted, limitedAt, watch,
                   last, solo, now, uuid, storeVars, vaultVars, crypto, resp>>

\* steps 7-8: the vault's get, needs_refresh and refresh_token
FetchCredential(r) ==
    /\ Settled
    /\ req[r].pc = "credentials"
    /\ vault_lock = 0
    /\ LET me == req[r]
           credential == credentials[me.service]
           got == [me EXCEPT !.credential = credential,
                             !.steps = Append(@, "refresh"),
                             !.needs_refresh = NeedsRefresh(credential, now),
                             !.fetched_at = now]
           fresh == RefreshToken(credential, now)
       IN  req' = [req EXCEPT ![r] =
               IF me.service \notin DOMAIN credentials
                    THEN Finish(me, "CredentialNotFound")
               ELSE IF NeedsRefresh(credential, now) /\ fresh # {}
                    THEN [got EXCEPT !.refreshed = CHOOSE c \in fresh : TRUE,
                                     !.pc = "vault_update"]
               ELSE [got EXCEPT !.pc = "forward"]]
    /\ UNCHANGED <<rlVars, settings, direct, locks, calls, now, uuid, storeVars, vaultVars, crypto, resp>>

\* step 8: the vault's update with the refreshed credential; wr = 1 when the
\* rewrite of the credentials file fails
UpdateVault(r, rnd, wr) ==
    /\ Settled
    /\ req[r].pc = "vault_update"
    /\ vault_lock = 0
    /\ LET me == req[r]
           stored == [me EXCEPT !.effects = Append(@, "vault_update")]
       IN  /\ credentials' = Put(credentials, me.refreshed.service_id, me.refreshed)
           /\ IF wr = 0
              THEN \E order \in Orders(credentials') :
                       vault_file' = SaveToFile(credentials', encryption_key, rnd, order)
              ELSE UNCHANGED vault_file
           /\ req' = [req EXCEPT ![r] =
                  IF wr = 1 THEN Finish(stored, "Internal")
                  ELSE [stored EXCEPT !.credential = me.refreshed, !.pc = "forward"]]
    /\ UNCHANGED <<rlVars, settings, direct, locks, calls, now, uuid, storeVars, encryption_key, vault_lock, upd, opened,
                   saved, fetched, crypto, resp>>

(* The headers of a request: gateway/proxy.rs.  A HeaderMap is the sequence *)
(* of its entries; a header value is a text, or bytes that are no text.    *)

\* HeaderValue::to_str: Ok for a value of visible ASCII characters only
ToStr(value) == IF value.kind = "ascii" THEN {value.text} ELSE {}

Ascii(text) == [kind |-> "ascii", text |-> text]

Header(name, value) == [name |-> name, value |-> value]

\* str::to_lowercase of HeaderName::as_str, which is in lower case already
ToLowercase(name) == name

\* is_hop_by_hop
HopByHop ==
    {"connection", "keep-alive", "proxy-authenticate", "proxy-authorization", "te",
     "trailers", "transfer-encoding", "upgrade"}
IsHopByHop(name) == name \in HopByHop

\* forward, the loop over the incoming headers: the headers it copies
ForwardedHeaders(headers) ==
    SelectSeq(headers, LAMBDA h :
        /\ ~IsHopByHop(ToLowercase(h.name))
        /\ ToLowercase(h.name) # "host"
        /\ ToLowercase(h.name) # "authorization"
        /\ ToStr(h.value) # {})

\* forward, the headers of the upstream request: RequestBuilder::header appends
\* the injected Authorization, then every header the loop copies
UpstreamHeaders(headers, credential) ==
    <<Header("authorization", Ascii("Bearer " \o credential.access_token))>>
        \o ForwardedHeaders(headers)

\* {"raw": "non-json response"}
RawPlaceholder == "raw: non-json response"

\* response.json().await.unwrap_or_else(...): the parsed body or the placeholder
ResponseBody(body) == IF body.json THEN body.text ELSE RawPlaceholder

\* Json(response_body).into_response(): the status of an Ok answer
OkStatus(upstream) == 200

\* the headers of the incoming request: X-Session-ID as the handler read it,
\* then the other headers the caller sent
IncomingHeaders(header, others) ==
    (IF header = NoValue THEN << >> ELSE <<Header("x-session-id", Ascii(header))>>)
        \o others

\* steps 9-10: ProxyClient::forward; `method` is the request's method and
\* `others` its headers besides X-Session-ID, which nothing reads before this
\* step; `upstream` is 0 when the transport fails, else the status of the
\* upstream's response, and `body` is that response's body
Forward(r, method, others, upstream, body) ==
    /\ Settled
    /\ req[r].pc = "forward"
    /\ LET headers == IncomingHeaders(req[r].header, others)
           me == [req[r] EXCEPT !.steps = Append(@, "dispatch"), !.method = method,
                                !.headers = headers]
           sent == [me EXCEPT !.effects = Append(@, "dispatch"), !.upstream = upstream,
                              !.sent = UpstreamHeaders(headers, me.credential),
                              !.token = me.credential.access_token]
       IN  req' = [req EXCEPT ![r] =
               IF me.method \notin Methods THEN Finish(me, "BadRequest")
               ELSE IF upstream = 0 THEN Finish(sent, "UpstreamError")
               ELSE [Finish([sent EXCEPT !.answer = body], "ok")
                        EXCEPT !.status = OkStatus(upstream),
                               !.body = ResponseBody(body)]]
    /\ UNCHANGED <<rlVars, settings, direct, locks, calls, now, uuid, storeVars, vaultVars, crypto, resp>>

\* The responses produced by the last step reach their callers.
Deliver ==
    /\ ~Settled
    /\ resp' = Response(NoValue, NoValue, NilUuid, NoValue)
    /\ req' = [r \in DOMAIN req |-> IF req[r].pc = "done" THEN IdleRequest ELSE req[r]]
    /\ UNCHANGED <<rlVars, settings, direct, locks, calls, now, uuid, storeVars, vaultVars, crypto>>

----------------------------------------------------------------------------
(* The locks of the stores: storage/file_store.rs.  Every map of UserStore  *)
(* and AgentStore sits in its own tokio RwLock.  A lock is the set of tasks *)
(* holding it for reading, the task holding it for writing (0: none) and    *)
(* the queue of the tasks waiting for it: the lock is fair, a request is    *)
(* granted at once only when nobody waits, and a released lock goes to the  *)
(* head of the queue.                                                       *)

LockNames == {"users", "users_by_email", "agents", "sessions"}

FreeLock == [readers |-> {}, writer |-> 0, queue |-> << >>]
FreeLocks == [l \in LockNames |-> FreeLock]

\* RwLock::read / RwLock::write return without waiting
Grantable(lock, mode) ==
    /\ lock.queue = << >>
    /\ lock.writer = 0
    /\ mode = "write" => lock.readers = {}

Hold(lock, t, mode) ==
    IF mode = "read" THEN [lock EXCEPT !.readers = @ \cup {t}]
    ELSE [lock EXCEPT !.writer = t]

Holds(lock, t) == t \in lock.readers \/ lock.writer = t

Waits(lock, t) == \E i \in 1..Len(lock.queue) : lock.queue[i].task = t

Enqueue(lock, t, mode) == [lock EXCEPT !.queue = Append(@, [task |-> t, mode |-> mode])]

\* the waiters at the head of the queue that the lock can now admit
RECURSIVE Admit(_)
Admit(lock) ==
    IF lock.queue = << >> \/ lock.writer # 0 THEN lock
    ELSE LET w == Head(lock.queue)
             rest == [lock EXCEPT !.queue = Tail(@)]
         IN  IF w.mode = "read" THEN Admit(Hold(rest, w.task, "read"))
             ELSE IF lock.readers = {} THEN Hold(rest, w.task, "write")
             ELSE lock

\* a guard of task t is dropped
Drop(lock, t) ==
    Admit([lock EXCEPT !.readers = @ \ {t}, !.writer = IF @ = t THEN 0 ELSE @])

\* the guards a task holds are dropped when its method returns
DropAll(ls, t) == [l \in DOMAIN ls |-> Drop(ls[l], t)]

\* the tasks that stand between a waiting task and the lock: its holders, and
\* the waiters queued before it
Blockers(lock, t) ==
    LET i == CHOOSE j \in 1..Len(lock.queue) : lock.queue[j].task = t
    IN  lock.readers \cup (IF lock.writer = 0 THEN {} ELSE {lock.writer})
            \cup {lock.queue[j].task : j \in 1..(i - 1)}

(* The store methods, lock by lock.  A method is the sequence of the locks  *)
(* it asks for; a guard is held until the method returns, but for the ones  *)
(* dropped at the end of their statement.  get_agent, get_user: one read    *)
(* guard.  grant_service_access and revoke_service_access are get_agent,    *)
(* the change of the clone, and update_agent.                               *)

Read(l) == [lock |-> l, mode |-> "read"]
Write(l) == [lock |-> l, mode |-> "write"]

\* the locks a method asks for, in the order of its .await points
LocksOf(op) ==
    CASE op \in {"create_agent", "update_agent", "delete_agent"}
             -> <<Write("agents"), Read("sessions")>>
      [] op = "create_session" -> <<Write("sessions"), Read("agents")>>
      [] op = "get_agent" -> <<Read("agents")>>
      [] op = "create_user"
             -> <<Read("users_by_email"), Write("users"), Write("users_by_email")>>
      [] op = "update_user" -> <<Write("users")>>
      [] op = "get_user" -> <<Read("users")>>
      [] op = "get_user_by_email" -> <<Read("users_by_email"), Read("users")>>
      [] op \in {"grant_service_access", "revoke_service_access"}
             -> <<Read("agents"), Write("agents"), Read("sessions")>>

\* the guards that are temporaries of one statement: the read guard of the
\* email test in create_user, and the read guard inside the handlers' get_agent
Temporary(op, stage) ==
    /\ op \in {"create_user", "grant_service_access", "revoke_service_access"}
    /\ stage = 1

NoStoreCall ==
    [op |-> NoValue, pc |-> "idle", stage |-> 0, id |-> NilUuid, agent |-> NoAgent,
     session |-> NoSession, user |-> NoUser, email |-> << >>, service |-> NoValue,
     wr |-> 0, result |-> NoValue, found |-> {}]
IdleCalls == [t \in Tasks |-> NoStoreCall]

Continue(call) == [call EXCEPT !.stage = @ + 1, !.pc = "run"]
Return(call, result) == [call EXCEPT !.pc = "returned", !.result = result]
Saved(call) == Return(call, IF call.wr = 1 THEN "Internal" ELSE "ok")

\* the maps of the two stores and the users file
StoreData ==
    [agents |-> agents, sessions |-> sessions, users |-> users,
     users_by_email |-> users_by_email, users_file |-> users_file]

Stage(data, call) == [data |-> data, call |-> call]

\* what a method does once the lock of its stage is granted, up to its next
\* .await or its return; wr = 1 when the fs::write of save_to_file fails
AfterLock(c, d) ==
    CASE c.op \in {"create_agent", "update_agent"} /\ c.stage = 1
             -> Stage([d EXCEPT !.agents = UpdateAgent(@, c.agent)], Continue(c))
      [] c.op = "delete_agent" /\ c.stage = 1
             -> IF c.id \in DOMAIN d.agents
                THEN Stage([d EXCEPT !.agents = Remove(@, c.id)],
                           Continue([c EXCEPT !.found = {d.agents[c.id]}]))
                ELSE Stage(d, Return(c, "ok"))
      [] c.op \in {"create_agent", "update_agent", "delete_agent"} /\ c.stage = 2
             -> Stage(d, Saved(c))
      [] c.op = "create_session" /\ c.stage = 1
             -> Stage([d EXCEPT !.sessions = Put(@, c.session.session_id, c.session)],
                      Continue(c))
      [] c.op = "create_session" /\ c.stage = 2 -> Stage(d, Saved(c))
      [] c.op = "get_agent"
             -> Stage(d, Return([c EXCEPT !.found = Lookup(d.agents, c.id)], "ok"))
      [] c.op = "create_user" /\ c.stage = 1
             -> IF c.user.email \in DOMAIN d.users_by_email
                THEN Stage(d, Return(c, "BadRequest"))
                ELSE Stage(d, Continue(c))
      [] c.op = "create_user" /\ c.stage = 2 -> Stage(d, Continue(c))
      [] c.op = "create_user" /\ c.stage = 3
             -> LET inserted == [d EXCEPT !.users_by_email = Put(@, c.user.email, c.user.id),
                                          !.users = Put(@, c.user.id, c.user)]
                IN  Stage([inserted EXCEPT !.users_file = IF c.wr = 1 THEN @
                                                          ELSE inserted.users],
                          Saved(c))
      [] c.op = "update_user"
             -> LET inserted == [d EXCEPT !.users = Put(@, c.user.id, c.user)]
                IN  Stage([inserted EXCEPT !.users_file = IF c.wr = 1 THEN @
                                                          ELSE inserted.users],
                          Saved(c))
      [] c.op = "get_user"
             -> Stage(d, Return([c EXCEPT !.found = Lookup(d.users, c.id)], "ok"))
      [] c.op = "get_user_by_email" /\ c.stage = 1
             -> IF c.email \in DOMAIN d.users_by_email
                THEN Stage(d, Continue([c EXCEPT !.id = d.users_by_email[c.email]]))
                ELSE Stage(d, Return(c, "ok"))
      [] c.op = "get_user_by_email" /\ c.stage = 2
             -> Stage(d, Return([c EXCEPT !.found = Lookup(d.users, c.id)], "ok"))
      [] c.op = "grant_service_access" /\ c.stage = 1
             -> IF c.id \notin DOMAIN d.agents THEN Stage(d, Return(c, "NotFound"))
                ELSE IF CanAccessService(d.agents[c.id], c.service)
                     THEN Stage(d, Return(c, "BadRequest"))
                ELSE Stage(d, Continue([c EXCEPT !.found = {d.agents[c.id]},
                                                 !.agent = AddService(d.agents[c.id],
                                                                      c.service)]))
      [] c.op = "revoke_service_access" /\ c.stage = 1
             -> IF c.id \notin DOMAIN d.agents THEN Stage(d, Return(c, "NotFound"))
                ELSE IF ~RemoveServiceReturns(d.agents[c.id], c.service)
                     THEN Stage(d, Return(c, "BadRequest"))
                ELSE Stage(d, Continue([c EXCEPT !.found = {d.agents[c.id]},
                                                 !.agent = RemoveService(d.agents[c.id],
                                                                         c.service)]))
      [] c.op \in {"grant_service_access", "revoke_service_access"} /\ c.stage = 2
             -> Stage([d EXCEPT !.agents = UpdateAgent(@, c.agent)], Continue(c))
      [] c.op \in {"grant_service_access", "revoke_service_access"} /\ c.stage = 3
             -> Stage(d, Saved(c))

\* a task enters a store method or a handler
StoreCall(t, call) ==
    /\ calls[t].pc = "idle"
    /\ calls' = [calls EXCEPT ![t] = [call EXCEPT !.pc = "run", !.stage = 1]]
    /\ UNCHANGED <<rlVars, settings, direct, locks, now, uuid, storeVars, vaultVars, crypto, resp, req>>

\* a handler draws the new agent's id in Agent::with_lifespan, then calls
\* create_agent
CreateAgentCall(t, services, wr) ==
    /\ calls[t].pc = "idle"
    /\ uuid < MaxUuid
    /\ uuid' = uuid + 1
    /\ calls' = [calls EXCEPT ![t] =
                    [NoStoreCall EXCEPT !.op = "create_agent", !.pc = "run", !.stage = 1,
                                        !.id = uuid', !.wr = wr,
                                        !.agent = [AgentWithLifespan(uuid', 1, now)
                                                      EXCEPT !.allowed_services = services]]]
    /\ UNCHANGED <<rlVars, settings, direct, locks, now, storeVars, vaultVars, crypto, resp, req>>

\* create_session draws the session id before it asks for a lock
CreateSessionCall(t, agent_id, wr) ==
    /\ calls[t].pc = "idle"
    /\ uuid < MaxUuid
    /\ uuid' = uuid + 1
    /\ calls' = [calls EXCEPT ![t] =
                    [NoStoreCall EXCEPT !.op = "create_session", !.pc = "run", !.stage = 1,
                                     !.id = agent_id, !.wr = wr,
                                     !.session = NewSession(uuid', agent_id, now)]]
    /\ UNCHANGED <<rlVars, settings, direct, locks, now, storeVars, vaultVars, crypto, resp, req>>

\* the task goes on with the lock `held` in its hands: the method's code up
\* to the next .await, the temporary guard dropped, every guard dropped at the
\* return
Proceed(t, held) ==
    LET c == calls[t]
        out == AfterLock(c, StoreData)
        l == LocksOf(c.op)[c.stage].lock
        kept == IF Temporary(c.op, c.stage) THEN [held EXCEPT ![l] = Drop(@, t)] ELSE held
    IN  /\ agents' = out.data.agents
        /\ sessions' = out.data.sessions
        /\ users' = out.data.users
        /\ users_by_email' = out.data.users_by_email
        /\ users_file' = out.data.users_file
        /\ calls' = [calls EXCEPT ![t] = out.call]
        /\ locks' = IF out.call.pc = "returned" THEN DropAll(kept, t) ELSE kept

\* a task asks for the next lock of its method: it gets it and goes on, or it
\* joins the lock's queue
Acquire(t) ==
    /\ calls[t].pc = "run"
    /\ LET want == LocksOf(calls[t].op)[calls[t].stage]
       IN  IF Grantable(locks[want.lock], want.mode)
           THEN Proceed(t, [locks EXCEPT ![want.lock] = Hold(@, t, want.mode)])
           ELSE /\ locks' = [locks EXCEPT ![want.lock] = Enqueue(@, t, want.mode)]
                /\ calls' = [calls EXCEPT ![t].pc = "wait"]
                /\ UNCHANGED <<users, users_by_email, users_file, agents, sessions>>
    /\ UNCHANGED <<rlVars, settings, direct, now, uuid, reg, created, rotated, vaultVars, crypto, resp,
                   req>>

\* a waiting task has been given its lock and goes on
Resume(t) ==
    /\ calls[t].pc = "wait"
    /\ Holds(locks[LocksOf(calls[t].op)[calls[t].stage].lock], t)
    /\ ~Waits(locks[LocksOf(calls[t].op)[calls[t].stage].lock], t)
    /\ Proceed(t, locks)
    /\ UNCHANGED <<rlVars, settings, direct, now, uuid, reg, created, rotated, vaultVars, crypto, resp,
                   req>>

\* ENCRYPTION_KEY of the running gateway
GatewayKey == <<97, 98>>

FirstNonces == [access_token |-> 1, refresh_token |-> 1]

\* the file save_to_file writes for `vault`, in one of its orders
StoredVault(vault, key) ==
    SaveToFile(vault, key, FirstNonces, CHOOSE order \in Orders(vault) : TRUE)

\* the vault after load_from_file has read an encrypted file
InitVault(vault) ==
    /\ credentials = vault
    /\ encryption_key = GatewayKey
    /\ vault_file = StoredVault(vault, GatewayKey)
    /\ vault_lock = 0
    /\ upd = [u \in Updaters |-> IdleUpdate]
    /\ opened = [kind |-> "ok", file |-> StoredVault(vault, GatewayKey), wr |-> 0]
    /\ saved = NoUpdate
    /\ fetched = NoGet

\* no Agent value is used directly
IdleDirect == DirectUse(NoAgent, NoDirectCall, NoAgent, FALSE, NoDirectCall)

\* Settings::from_env with TOKEN_REFRESH_BUFFER_SECS unset
DefaultSettings == [token_refresh_buffer_secs |-> DefaultRefreshBufferSecs]

InitGateway ==
    /\ now = 0
    /\ uuid = 0
    /\ settings = DefaultSettings
    /\ direct = IdleDirect
    /\ locks = FreeLocks
    /\ calls = IdleCalls
    /\ LoadUsers(<< >>)
    /\ agents = << >>
    /\ sessions = << >>
    /\ rotated = {}
    /\ resp = Response(NoValue, NoValue, NilUuid, NoValue)
    /\ req = [r \in Reqs |-> IdleRequest]

InitLimiter ==
    /\ instant = 0
    /\ windows = << >>
    /\ service_limits = NewServiceLimits
    /\ chk = [c \in Callers |-> IdleCall]
    /\ admitted = << >>
    /\ limitedAt = << >>
    /\ last = NoCall
    /\ solo = << >>

\* SpecRL: concurrent tasks share one key of a limiter whose agent policy is any {N, W}
InitRL ==
    /\ InitLimiter
    /\ InitGateway
    /\ InitVault(<< >>)
    /\ crypto = IdleCrypto
    /\ agent_limit \in RateLimitConfig
    /\ watch = {AgentKey("a")}

NextRL ==
    \/ \E c \in Callers : CheckAgentCall(c, "a")
    \/ \E c \in Callers : CheckLimitCall(c)
    \/ TickInstant

SpecRL == InitRL /\ [][NextRL]_vars

\* SpecKeys: one task at a time uses several agent and service keys
InitKeys ==
    /\ InitLimiter
    /\ InitGateway
    /\ InitVault(<< >>)
    /\ crypto = IdleCrypto
    /\ agent_limit \in RateLimitConfig
    /\ watch = {}

NextKeys ==
    \/ \E agent_id \in AgentIdStrings : CheckAgentCall(1, agent_id)
    \/ \E service_id \in ServiceIdStrings : CheckServiceCall(1, service_id)
    \/ CheckLimitCall(1)
    \/ TickInstant

SpecKeys == InitKeys /\ [][NextKeys]_vars

\* SpecCrypto: direct use of encrypt and decrypt with any two key strings
InitCrypto ==
    /\ InitLimiter
    /\ InitGateway
    /\ InitVault(<< >>)
    /\ agent_limit = NewAgentLimit
    /\ watch = {}
    /\ \E plaintext \in Plaintexts, key \in KeyStrings, other \in KeyStrings :
           crypto = [IdleCrypto EXCEPT !.pc = "encrypt", !.plaintext = plaintext,
                                       !.key = key, !.other = other]

NextCrypto ==
    \/ \E nonce \in Nonces : EncryptCall(nonce)
    \/ DecryptCall
    \/ DecryptOtherCall

SpecCrypto == InitCrypto /\ [][NextCrypto]_vars

\* SpecVault: the vault is opened on a file of any form, then updated and read
\* by concurrent tasks
VaultKeys == {GatewayKey, <<98>>}

\* the forms in which a file can hold a credential: in plaintext, or encrypted
\* under one of the keys
RecordForms(cred) ==
    {PlaintextCredential(cred)}
        \cup {EncryptCredential(cred, key, FirstNonces) : key \in VaultKeys}

FilesOf(vault) ==
    UNION {{CredentialsFile("ok", [i \in DOMAIN order |-> form[order[i]]]) :
               order \in Orders(vault)} :
           form \in {f \in [DOMAIN vault -> UNION {RecordForms(vault[s]) : s \in DOMAIN vault}] :
                        \A s \in DOMAIN vault : f[s] \in RecordForms(vault[s])}}

InitialFiles ==
    {CredentialsFile("unreadable", << >>), CredentialsFile("malformed", << >>),
     CredentialsFile("ok", << >>)}
        \cup UNION {FilesOf(vault) : vault \in InitialVaults}

UpdateCredentials ==
    {StoredCredential("payment", "tok-new", {"rt-new"}, {9}, <<"read", "write">>),
     StoredCredential("bank", "tok-bank", {}, {}, << >>)}

InitVaultFile ==
    /\ InitLimiter
    /\ InitGateway
    /\ agent_limit = NewAgentLimit
    /\ watch = {}
    /\ crypto = IdleCrypto
    /\ credentials = << >>
    /\ encryption_key = << >>
    /\ vault_file \in InitialFiles
    /\ vault_lock = 0
    /\ upd = [u \in Updaters |-> IdleUpdate]
    /\ opened = NotOpened
    /\ saved = NoUpdate
    /\ fetched = NoGet

NextVault ==
    \/ \E rnd \in Rnd, wr \in 0..2 : LoadFromFile(GatewayKey, rnd, wr)
    \/ \E u \in Updaters, credential \in UpdateCredentials : UpdateCall(u, credential)
    \/ \E u \in Updaters, rnd \in Rnd, wr \in 0..1 : UpdateSave(u, rnd, wr)
    \/ \E service_id \in Services : GetCall(service_id)

SpecVault == InitVaultFile /\ [][NextVault]_vars

----------------------------------------------------------------------------
(* Spec: the gateway *)

Usernames == {<<"a">>, <<" ">>}
Emails == {<<"a", "@", "x">>, <<"a">>}
ServiceLists == {<< >>, <<"payment">>, <<"payment", "bank">>, <<"ghost">>}
LifespanDays == {0, 1}
RequestedServices == Services \cup {"ghost"}
RequestedMethods == {"GET", "TRACE"}
UpstreamStatuses == {0, 200, 404}
JsonBody == [json |-> TRUE, text |-> "{}"]

\* a header names a stored session, or no session, or is missing
Headers == {NoValue, UuidString(NilUuid)} \cup DOMAIN sessions

\* ids handed out by an earlier run, read back from the files at startup
Earlier(n) == MaxUuid + n

\* the users file holds one user
Alice ==
    [id |-> Earlier(1), username |-> <<"a">>, email |-> <<"a", "@", "x">>,
     agents |-> << >>]

\* the agents file of a first run
EmptyStore == [users |-> Put(<< >>, Alice.id, Alice), agents |-> << >>, sessions |-> << >>]

\* the agents file of a later run: one access key of Alice's with its session
StoredAgent(lifespan_days) ==
    [AgentWithLifespan(Earlier(2), lifespan_days, 0)
         EXCEPT !.allowed_services = <<"payment">>]

StoredKey(lifespan_days) ==
    [users |-> Put(<< >>, Alice.id, AddAgent(Alice, Earlier(2))),
     agents |-> Put(<< >>, Earlier(2), StoredAgent(lifespan_days)),
     sessions |-> Put(<< >>, UuidString(Earlier(3)), NewSession(Earlier(3), Earlier(2), 0))]

InitFiles(files, vault) ==
    /\ InitLimiter
    /\ agent_limit = NewAgentLimit
    /\ watch = {}
    /\ now = 0
    /\ uuid = 0
    /\ LoadUsers(files.users)
    /\ agents = files.agents
    /\ sessions = files.sessions
    /\ rotated = {}
    /\ resp = Response(NoValue, NoValue, NilUuid, NoValue)
    /\ req = [r \in Reqs |-> IdleRequest]
    /\ InitVault(vault)
    /\ crypto = IdleCrypto

Pipeline ==
    \/ \E r \in Reqs, header \in Headers, service \in RequestedServices :
           ProxyRequest(r, header, service)
    \/ \E r \in Reqs : AdmitAgent(r)
    \/ \E r \in Reqs : CheckAgent(r)
    \/ \E r \in Reqs : CheckService(r)
    \/ \E r \in Reqs : FetchCredential(r)
    \/ \E r \in Reqs, rnd \in Rnd, wr \in 0..1 : UpdateVault(r, rnd, wr)
    \/ \E r \in Reqs, method \in RequestedMethods, upstream \in UpstreamStatuses :
           Forward(r, method, << >>, upstream, JsonBody)

\* A first run: access keys are created, changed and used.
Init ==
    /\ \E vault \in InitialVaults : InitFiles(EmptyStore, vault)
    /\ settings = DefaultSettings
    /\ direct = IdleDirect
    /\ locks = FreeLocks
    /\ calls = IdleCalls

Handlers ==
    \/ TickNow
    \/ \E user_id \in DOMAIN users \cup {NilUuid}, services \in ServiceLists,
          lifespan_days \in LifespanDays, wr \in 0..3 :
           CreateAgentAccess(user_id, services, lifespan_days, wr)
    \/ \E agent_id \in DOMAIN agents \cup {NilUuid}, service_id \in RequestedServices,
          wr \in 0..1 :
           GrantServiceAccess(agent_id, service_id, wr)
    \/ \E agent_id \in DOMAIN agents \cup {NilUuid}, service_id \in RequestedServices,
          wr \in 0..1 :
           RevokeServiceAccess(agent_id, service_id, wr)
    \/ \E agent_id \in DOMAIN agents, wr \in 0..1 : DeleteAgent(agent_id, wr)
    \/ Pipeline

Next == Deliver \/ Handlers

Spec == Init /\ [][Next]_vars

\* A later run: the stored access key is rotated and used.
InitRotate ==
    /\ \E lifespan_days \in LifespanDays, vault \in InitialVaults :
           InitFiles(StoredKey(lifespan_days), vault)
    /\ settings = DefaultSettings
    /\ direct = IdleDirect
    /\ locks = FreeLocks
    /\ calls = IdleCalls

HandlersRotate ==
    \/ TickNow
    \/ \E agent_id \in DOMAIN agents \cup {NilUuid}, wr \in 0..2 :
           RotateAgentKey(agent_id, wr)
    \/ \E agent_id \in DOMAIN agents, wr \in 0..1 : DeleteAgent(agent_id, wr)
    \/ Pipeline

NextRotate == Deliver \/ HandlersRotate

SpecRotate == InitRotate /\ [][NextRotate]_vars

----------------------------------------------------------------------------
(* SpecLifecycle: users are registered and access keys created, changed and *)
(* rotated, on a first run or on a later one; no agent is deleted.          *)

LifecycleServiceLists ==
    ServiceLists \cup {<<"payment", "ghost">>, <<"payment", "payment">>}

InitLifecycle ==
    /\ \E files \in {EmptyStore, StoredKey(1)} :
           InitFiles(files, CHOOSE vault \in InitialVaults : DOMAIN vault = {"payment"})
    /\ settings = DefaultSettings
    /\ direct = IdleDirect
    /\ locks = FreeLocks
    /\ calls = IdleCalls

NextLifecycle ==
    \/ Deliver
    \/ TickNow
    \/ RegisterUser(1, <<"a">>, <<"b", "@", "x">>)
    \/ \E wr \in 0..1 : CreateUserInsert(1, wr)
    \/ \E user_id \in DOMAIN users \cup {NilUuid}, services \in LifecycleServiceLists,
          lifespan_days \in LifespanDays, wr \in 0..3 :
           CreateAgentAccess(user_id, services, lifespan_days, wr)
    \/ \E agent_id \in DOMAIN agents \cup {NilUuid}, service_id \in RequestedServices,
          wr \in 0..1 :
           GrantServiceAccess(agent_id, service_id, wr)
    \/ \E agent_id \in DOMAIN agents \cup {NilUuid}, service_id \in RequestedServices,
          wr \in 0..1 :
           RevokeServiceAccess(agent_id, service_id, wr)
    \/ \E agent_id \in DOMAIN agents \cup {NilUuid}, wr \in 0..2 :
           RotateAgentKey(agent_id, wr)

SpecLifecycle == InitLifecycle /\ [][NextLifecycle]_vars

----------------------------------------------------------------------------
(* SpecRevoke: the stored access key is rotated, its services granted and   *)
(* revoked, and its sessions used.  No agent is created, so every record of *)
(* the agent map is the stored agent under one of its ids.                  *)

InitRevoke ==
    /\ InitFiles(StoredKey(1), CHOOSE vault \in InitialVaults : DOMAIN vault = {"payment"})
    /\ settings = DefaultSettings
    /\ direct = IdleDirect
    /\ locks = FreeLocks
    /\ calls = IdleCalls

NextRevoke ==
    \/ Deliver
    \/ TickNow
    \/ \E agent_id \in DOMAIN agents, wr \in 0..2 : RotateAgentKey(agent_id, wr)
    \/ \E agent_id \in DOMAIN agents : GrantServiceAccess(agent_id, "payment", 0)
    \/ \E agent_id \in DOMAIN agents : RevokeServiceAccess(agent_id, "payment", 0)
    \/ Pipeline

SpecRevoke == InitRevoke /\ [][NextRevoke]_vars

----------------------------------------------------------------------------
(* SpecStore: concurrent tasks each make one call of a store method or of   *)
(* a grant / revoke handler, on the stores of a later run.                   *)

Bob(t) == NewUser(Earlier(10 + t), <<"b">>, <<"b", "@", "x">>)

\* the calls a task can make on the stores as they are
StoreCalls(t) ==
    LET call(op) == [NoStoreCall EXCEPT !.op = op]
        agent_ids == DOMAIN agents \cup {NilUuid}
        user_ids == DOMAIN users \cup {NilUuid}
        emails == {Alice.email, Bob(t).email}
    IN  {[call("update_agent") EXCEPT !.id = id, !.wr = wr,
                                      !.agent = [agents[id] EXCEPT !.lifespan_days = 0]] :
             id \in DOMAIN agents, wr \in 0..1}
        \cup {[call("delete_agent") EXCEPT !.id = id, !.wr = wr] :
                  id \in agent_ids, wr \in 0..1}
        \cup {[call("get_agent") EXCEPT !.id = id] : id \in agent_ids}
        \cup {[call("create_user") EXCEPT !.user = [Bob(t) EXCEPT !.email = email],
                                          !.wr = wr] :
                  email \in emails, wr \in 0..1}
        \cup {[call("update_user") EXCEPT !.id = id, !.wr = wr,
                                          !.user = AddAgent(users[id], 1)] :
                  id \in DOMAIN users, wr \in 0..1}
        \cup {[call("get_user") EXCEPT !.id = id] : id \in user_ids}
        \cup {[call("get_user_by_email") EXCEPT !.email = email] : email \in emails}
        \cup {[call(op) EXCEPT !.id = id, !.service = service, !.wr = wr] :
                  op \in {"grant_service_access", "revoke_service_access"},
                  id \in agent_ids, service \in Services, wr \in 0..1}

InitStore ==
    /\ InitFiles(StoredKey(1), CHOOSE vault \in InitialVaults : DOMAIN vault = {"payment"})
    /\ settings = DefaultSettings
    /\ direct = IdleDirect
    /\ locks = FreeLocks
    /\ calls = IdleCalls

NextStore ==
    \/ \E t \in Tasks : \E call \in StoreCalls(t) : StoreCall(t, call)
    \/ \E t \in Tasks, wr \in 0..1 : CreateAgentCall(t, <<"payment">>, wr)
    \/ \E t \in Tasks, agent_id \in DOMAIN agents, wr \in 0..1 :
           CreateSessionCall(t, agent_id, wr)
    \/ \E t \in Tasks : Acquire(t)
    \/ \E t \in Tasks : Resume(t)

SpecStore == InitStore /\ [][NextStore]_vars

----------------------------------------------------------------------------
(* SpecAgent: add_service and remove_service are called in any order on an  *)
(* agent with any list of allowed services.                                 *)

\* allowed_services as create_agent_access leaves it: the requested services
\* in the request's order, repetitions included
AllowedServiceLists == UNION {[1..n -> Services] : n \in 0..MaxServices}

DirectServices == Services \cup {"ghost"}

InitAgent ==
    /\ InitLimiter
    /\ agent_limit = NewAgentLimit
    /\ watch = {}
    /\ now = 0
    /\ uuid = 1
    /\ settings = DefaultSettings
    /\ LoadUsers(<< >>)
    /\ agents = << >>
    /\ sessions = << >>
    /\ rotated = {}
    /\ resp = Response(NoValue, NoValue, NilUuid, NoValue)
    /\ req = [r \in Reqs |-> IdleRequest]
    /\ InitVault(<< >>)
    /\ crypto = IdleCrypto
    /\ \E allowed_services \in AllowedServiceLists, lifespan_days \in LifespanDays :
           LET agent == [AgentWithLifespan(1, lifespan_days, 0)
                             EXCEPT !.allowed_services = allowed_services]
           IN  direct = DirectUse(agent, NoDirectCall, agent, FALSE, NoDirectCall)
    /\ locks = FreeLocks
    /\ calls = IdleCalls

NextAgent ==
    \/ \E service_id \in DirectServices : AddServiceCall(service_id)
    \/ \E service_id \in DirectServices : RemoveServiceCall(service_id)

SpecAgent == InitAgent /\ [][NextAgent]_vars

----------------------------------------------------------------------------
(* SpecProxy: the stored access key is used; the vault holds a credential   *)
(* of any expiry, the setting TOKEN_REFRESH_BUFFER_SECS has any value, and  *)
(* the caller sends any headers.                                            *)

ProxyExpiries == {{}} \cup {{e} : e \in (REFRESH_BUFFER_HOURS - 1)..(REFRESH_BUFFER_HOURS + MaxTime + 1)}

ProxyVaults ==
    {[s \in {"payment"} |->
         StoredCredential(s, "tok-payment", refresh_token, expires_at, <<"read">>)] :
        refresh_token \in {{}, {"rt-payment"}}, expires_at \in ProxyExpiries}

RefreshBufferSecs ==
    {DefaultRefreshBufferSecs, REFRESH_BUFFER_HOURS * SecsPerHour,
     (REFRESH_BUFFER_HOURS + MaxTime) * SecsPerHour}

\* the headers a caller may send besides X-Session-ID
HeaderChoices ==
    {Header(name, Ascii("v")) : name \in HopByHop \cup {"host", "content-type"}}
        \cup {Header("authorization", Ascii("Bearer tok-caller")),
              Header("x-note", [kind |-> "utf8", text |-> "caf<c3><a9>"]),
              Header("x-bin", [kind |-> "bytes", text |-> NoValue])}

OtherHeaders ==
    {<< >>} \cup {<<h>> : h \in HeaderChoices}
        \cup {<<Header("authorization", Ascii("Bearer tok-caller")), h>> :
                  h \in HeaderChoices}

UpstreamBodies == {JsonBody, [json |-> FALSE, text |-> "<html>"]}

InitProxy ==
    /\ \E vault \in ProxyVaults : InitFiles(StoredKey(1), vault)
    /\ \E secs \in RefreshBufferSecs : settings = [token_refresh_buffer_secs |-> secs]
    /\ direct = IdleDirect
    /\ locks = FreeLocks
    /\ calls = IdleCalls

NextProxy ==
    \/ Deliver
    \/ TickNow
    \/ \E r \in Reqs, header \in Headers : ProxyRequest(r, header, "payment")
    \/ \E r \in Reqs : AdmitAgent(r)
    \/ \E r \in Reqs : CheckAgent(r)
    \/ \E r \in Reqs : CheckService(r)
    \/ \E r \in Reqs : FetchCredential(r)
    \/ \E r \in Reqs, rnd \in Rnd, wr \in 0..1 : UpdateVault(r, rnd, wr)
    \/ \E r \in Reqs, others \in OtherHeaders, upstream \in UpstreamStatuses \cup {500},
          body \in UpstreamBodies :
           Forward(r, "GET", others, upstream, body)

SpecProxy == InitProxy /\ [][NextProxy]_vars

----------------------------------------------------------------------------
(* SpecCreate and SpecUsers: the user store *)

ValidEmails == {<<"a", "@", "x">>, <<"b", "@", "x">>}

\* the user values passed to create_user and update_user
UserValues ==
    {NewUser(id, <<"a">>, email) : id \in 1..MaxUuid, email \in ValidEmails}

\* the users file lists nobody, or one user
InitUsers ==
    /\ InitLimiter
    /\ agent_limit = NewAgentLimit
    /\ watch = {}
    /\ now = 0
    /\ uuid = 0
    /\ settings = DefaultSettings
    /\ direct = IdleDirect
    /\ locks = FreeLocks
    /\ calls = IdleCalls
    /\ \E file \in {<< >>, Put(<< >>, Alice.id, Alice)} : LoadUsers(file)
    /\ agents = << >>
    /\ sessions = << >>
    /\ rotated = {}
    /\ resp = Response(NoValue, NoValue, NilUuid, NoValue)
    /\ req = [r \in Reqs |-> IdleRequest]
    /\ InitVault(<< >>)
    /\ crypto = IdleCrypto

\* concurrent registrations
NextCreate ==
    \/ \E t \in Tasks, username \in Usernames, email \in Emails \cup ValidEmails :
           RegisterUser(t, username, email)
    \/ \E t \in Tasks, wr \in 0..1 : CreateUserInsert(t, wr)

SpecCreate == InitUsers /\ [][NextCreate]_vars

\* create_user and update_user called one after the other with any user values
NextUsers ==
    \/ \E user \in UserValues : CreateUserCall(1, user)
    \/ \E wr \in 0..1 : CreateUserInsert(1, wr)
    \/ \E user \in UserValues, wr \in 0..1 : UpdateUserCall(user, wr)

SpecUsers == InitUsers /\ [][NextUsers]_vars

----------------------------------------------------------------------------
(* Claims about the admission pipeline and the session store *)

Last(seq) == seq[Len(seq)]
IsPrefix(s, t) == Len(s) <= Len(t) /\ \A i \in 1..Len(s) : s[i] = t[i]

PipelineOrder ==
    <<"session_extraction", "validate_session", "agent_expiry", "entitlement",
      "check_agent", "check_service", "service_lookup", "credential_fetch",
      "refresh", "dispatch">>

\* the error kinds a step can fail with
ErrorsOf(step) ==
    CASE step = "session_extraction" -> {"Unauthorized"}
      [] step = "validate_session" -> {"Unauthorized", "SessionExpired", "Internal"}
      [] step = "agent_expiry" -> {"Unauthorized"}
      [] step = "entitlement" -> {"ServiceNotAllowed"}
      [] step \in {"check_agent", "check_service"} -> {"RateLimitExceeded"}
      [] step = "service_lookup" -> {"NotFound"}
      [] step = "credential_fetch" -> {"CredentialNotFound"}
      [] step = "refresh" -> {"Internal"}
      [] step = "dispatch" -> {"BadRequest", "UpstreamError"}

\* the step a state effect belongs to
StepOf(effect) ==
    CASE effect = "agent_timestamp" -> "check_agent"
      [] effect = "service_timestamp" -> "check_service"
      [] effect = "vault_update" -> "refresh"
      [] effect = "dispatch" -> "dispatch"

Done(q) == q.pc = "done"
EndedAt(q, step, kind) == Done(q) /\ Last(q.steps) = step /\ q.result = kind

\* C1: the steps of a proxied request run in the pipeline's order; a failed
\* request returns an error of the step it stopped at, which is the first that
\* failed; and every state effect of the request belongs to a step it reached,
\* so no effect of a step after the failing one occurs.
C1_StepsInOrderFirstFailureWins ==
    \A r \in Reqs :
        LET q == req[r]
        IN  q.pc # "idle" =>
                /\ IsPrefix(q.steps, PipelineOrder)
                /\ \A i \in 1..Len(q.effects) : Contains(q.steps, StepOf(q.effects[i]))
                /\ (Done(q) /\ q.result # "ok") => q.result \in ErrorsOf(Last(q.steps))
                /\ (Done(q) /\ q.result = "ok") => q.steps = PipelineOrder

\* a request stopped by the service's rate limit after the agent's was passed
C1_Witness ==
    \E r \in Reqs :
        /\ EndedAt(req[r], "check_service", "RateLimitExceeded")
        /\ req[r].effects = <<"agent_timestamp">>

\* C2: once rotate_agent_key has replaced an agent id, validate_session no
\* longer succeeds on a session bound to that id.
C2_RotatedSessionsRejected ==
    \A r \in Reqs :
        req[r].pc # "idle" => ~(req[r].facts.key_rotated /\ req[r].facts.agent_known)

\* a replayed session of a rotated agent id has been dispatched
C2_Witness ==
    \E r \in Reqs :
        /\ req[r].facts.key_rotated
        /\ Contains(req[r].effects, "dispatch")

\* C3: validate_session rejects a stored, unexpired session whose agent is not
\* in the agent store with Unauthorized.
C3_OrphanUnauthorized ==
    \A r \in Reqs :
        LET q == req[r]
        IN  (Done(q) /\ Last(q.steps) = "validate_session"
             /\ q.facts.session_live /\ ~q.facts.agent_known)
                => q.result = "Unauthorized"

\* an orphaned session has been answered Internal
C3_Witness ==
    \E r \in Reqs :
        /\ EndedAt(req[r], "validate_session", "Internal")
        /\ req[r].facts.session_live

\* C4: validate_session answers Unauthorized exactly for an absent session,
\* SessionExpired exactly for a stored session that has expired (whatever the
\* agent store holds), Internal exactly for a stored, unexpired session whose
\* agent is unknown, and otherwise hands back the stored session with the agent
\* stored under its agent_id.
C4_ValidateSessionClassifies ==
    \A r \in Reqs :
        LET q == req[r]
            f == q.facts
        IN  (Contains(q.steps, "validate_session") /\ q.pc # "get_agent") =>
                /\ ~f.session_found <=> EndedAt(q, "validate_session", "Unauthorized")
                /\ (f.session_found /\ ~f.session_live)
                       <=> EndedAt(q, "validate_session", "SessionExpired")
                /\ (f.session_live /\ ~f.agent_known)
                       <=> EndedAt(q, "validate_session", "Internal")
                /\ (f.session_live /\ f.agent_known) <=> Len(q.steps) > 2
                /\ (~Done(q) /\ Len(q.steps) > 2) =>
                       /\ q.session = sessions[q.header]
                       /\ q.agent.id = q.session.agent_id

\* an expired session whose agent is gone is answered SessionExpired
C4_Witness ==
    \E r \in Reqs :
        /\ EndedAt(req[r], "validate_session", "SessionExpired")
        /\ sessions[req[r].header].agent_id \notin DOMAIN agents

\* C5: a request is dispatched only if, when it was admitted, its session was
\* stored and unexpired, its agent unexpired and the service among the agent's
\* allowed services; a live session of an expired agent is answered
\* Unauthorized and an unentitled service ServiceNotAllowed, with no effect.
C5_DispatchOnlyIfAdmitted ==
    \A r \in Reqs :
        LET q == req[r]
            f == q.facts
        IN  /\ Contains(q.effects, "dispatch")
                   => (f.session_live /\ f.agent_live /\ f.entitled)
            /\ (Done(q) /\ f.session_live /\ f.agent_known /\ ~f.agent_live)
                   => (q.result = "Unauthorized" /\ q.effects = << >>)
            /\ (Done(q) /\ f.session_live /\ f.agent_live /\ ~f.entitled)
                   => (q.result = "ServiceNotAllowed" /\ q.effects = << >>)

\* a live session of an expired agent has been turned away
C5_Witness ==
    \E r \in Reqs :
        /\ EndedAt(req[r], "agent_expiry", "Unauthorized")
        /\ req[r].facts.session_live
        /\ ~req[r].facts.agent_live

\* C6: a request rejected by the agent's rate limit leaves the timestamps
\* under every service key as they were.
C6_AgentRejectionKeepsServiceBudget ==
    \A r \in Reqs :
        LET q == req[r]
        IN  EndedAt(q, "check_agent", "RateLimitExceeded") =>
                /\ ~Contains(q.effects, "service_timestamp")
                /\ \A s \in RequestedServices :
                       Entry(windows, ServiceKey(s)) = Entry(q.before, ServiceKey(s))

\* an agent out of budget has been turned away while its service had budget left
C6_Witness ==
    \E r \in Reqs :
        /\ EndedAt(req[r], "check_agent", "RateLimitExceeded")
        /\ Remaining(windows, ServiceKey(req[r].service),
                     ServiceLimit(service_limits, req[r].service), instant) > 0

----------------------------------------------------------------------------
(* Claims about the rate limiter *)

\* C7: for the policy {N, W} of a key, under any interleaving of concurrent
\* checks, at most N admitted calls carry timestamps inside any interval
\* (a, a + W] of length W.
C7_AtMostNPerWindow ==
    \A a \in (0 - MaxWindow)..MaxInstant :
        AdmittedIn(AgentKey("a"), a, a + agent_limit.window) <= agent_limit.requests

\* more than N admitted calls carry the same timestamp
C7_Witness ==
    \E t \in Instants : Adm(AgentKey("a"), t) > agent_limit.requests

\* C8: a check is admitted exactly when fewer than N previously admitted
\* timestamps of its key lie strictly after now - W.
C8_AdmitsIffBudgetLeft ==
    (last.res # NoValue /\ last.key \in watch)
        => (last.res = "ok" <=> last.prior < last.config.requests)

\* a check has been admitted although N admitted timestamps lay after now - W
C8_Witness ==
    /\ last.key \in watch
    /\ last.res = "ok"
    /\ last.prior >= last.config.requests

\* no admitted call of `key` carries a timestamp in (p, p + W]
Quiet(key, p, W) == AdmittedIn(key, p, p + W) = 0

\* C9: after a pause longer than W (no admitted timestamp in (p, p + W]) the
\* budget of a key is whole again: a check made after the pause is rejected
\* only when N checks made after the pause were admitted, whatever calls
\* were rejected before or during the pause.
C9_BudgetResetsAfterPause ==
    \A p \in (0 - 1)..MaxInstant :
        (/\ last.res = "RateLimitExceeded"
         /\ last.key \in watch
         /\ last.t > p + last.config.window
         /\ Quiet(last.key, p, last.config.window))
            => AdmittedIn(last.key, p + last.config.window, MaxInstant)
                   >= last.config.requests

\* C9 witness: the key was rate-limited at instant p, nothing was admitted in
\* (p, p + W], and the N checks after the pause were all admitted.
C9_Witness ==
    /\ last.res = "ok"
    /\ last.key \in watch
    /\ LimitedAt(last.key) >= 0
    /\ LET p == LimitedAt(last.key)
           W == last.config.window
       IN  /\ last.t > p + W
           /\ Quiet(last.key, p, W)
           /\ AdmittedIn(last.key, p + W, MaxInstant) = last.config.requests

\* C10: every key behaves as a limiter of its own would: the counters and the
\* results of the shared map equal those of a limiter that keeps one private
\* counter per agent and per service, also for an agent id and a service id
\* that are the same string.
C10_KeysIsolated ==
    /\ \A id \in AgentIdStrings :
           Entry(windows, AgentKey(id)) = Entry(solo, <<"agent", id>>)
    /\ \A id \in ServiceIdStrings :
           Entry(windows, ServiceKey(id)) = Entry(solo, <<"service", id>>)
    /\ last.res = last.soloRes

\* C10 witness: agent "a" has no budget left, and a check of agent "payment"
\* is admitted while the service "payment" has a counter too.
C10_Witness ==
    /\ Remaining(windows, AgentKey("a"), agent_limit, instant) = 0
    /\ last.ns = "agent" /\ last.id = "payment" /\ last.res = "ok"
    /\ Entry(windows, ServiceKey("payment")) # << >>

----------------------------------------------------------------------------
(* Claims about the token refresh, the credential vault and the encryption *)

\* C11: the refresh never fails a request: a request that has fetched its
\* credential is dispatched, whether the credential needed no refresh, had no
\* refresh token, or could not be persisted after the refresh.
C11_RefreshNeverFailsRequest ==
    \A r \in Reqs :
        (Done(req[r]) /\ Contains(req[r].steps, "refresh"))
            => Contains(req[r].steps, "dispatch")

\* a request has ended Internal at the refresh, after the vault's update failed
C11_Witness ==
    \E r \in Reqs :
        /\ EndedAt(req[r], "refresh", "Internal")
        /\ Contains(req[r].effects, "vault_update")
        /\ ~Contains(req[r].effects, "dispatch")

\* C12: after a successful update(c), reading the credentials file again with
\* the vault's key yields c under c.service_id, equal in every field, and under
\* every other service id the entry the vault held before the update.
C12_UpdateSurvivesReload ==
    saved.kind = "ok" =>
        LET disk == ReadVault(vault_file, encryption_key)
            c == saved.credential
        IN  /\ disk.kind = "ok"
            /\ Lookup(disk.value, c.service_id) = {c}
            /\ \A s \in (DOMAIN disk.value \cup DOMAIN saved.before) \ {c.service_id} :
                   Lookup(disk.value, s) = Lookup(saved.before, s)

\* a credential without refresh token and expiry has been stored next to another
\* service's entry
C12_Witness ==
    /\ saved.kind = "ok"
    /\ saved.credential.refresh_token = {}
    /\ saved.credential.expires_at = {}
    /\ DOMAIN saved.before \ {saved.credential.service_id} # {}
    /\ vault_lock = 0

\* C13: whenever no update holds the write lock, the credentials file read
\* with the vault's key equals the in-memory map, and a get has never returned
\* an entry that the file did not hold at that moment.
C13_FileNeverLagsMemory ==
    /\ (opened.kind = "ok" /\ vault_lock = 0) =>
           LET disk == ReadVault(vault_file, encryption_key)
           IN  disk.kind = "ok" /\ disk.value = credentials
    /\ fetched.service_id # NoValue => fetched.credential = fetched.on_disk

\* a get has returned a credential of a service the file has no record of,
\* after the update that inserted it failed to rewrite the file
C13_Witness ==
    /\ saved.kind = "Internal"
    /\ fetched.service_id = saved.credential.service_id
    /\ fetched.credential = {saved.credential}
    /\ fetched.on_disk = {}

\* the tokens of a record of the file
TokensOf(record) == {record.access_token} \cup record.refresh_token

\* C14: once load_from_file has run, with no write error, on a readable file
\* with at least one record flagged encrypted: false, every record of the file
\* on disk is flagged encrypted: true and holds no token in plaintext, and
\* until the first update the in-memory entries hold the tokens of the
\* original records in plaintext.
C14_MigrationEncryptsEveryRecord ==
    (opened.kind # NoValue /\ opened.file.status = "ok" /\ NeedsMigration(opened.file)
     /\ opened.wr = 0) =>
        /\ \A i \in DOMAIN vault_file.credentials :
               /\ vault_file.credentials[i].encrypted
               /\ \A token \in TokensOf(vault_file.credentials[i]) : Decode(token) # {}
        /\ (saved.kind = NoValue /\ vault_lock = 0) =>
               \A i \in DOMAIN opened.file.credentials :
                   LET record == opened.file.credentials[i]
                   IN  ~record.encrypted =>
                           /\ record.service_id \in DOMAIN credentials
                           /\ credentials[record.service_id].access_token
                                  = record.access_token.text
                           /\ credentials[record.service_id].refresh_token
                                  = {rt.text : rt \in record.refresh_token}

\* load_from_file has failed on a file that holds one record in plaintext and
\* one encrypted under another key, and the plaintext record is still on disk
C14_Witness ==
    /\ opened.kind = "Internal"
    /\ NeedsMigration(vault_file)
    /\ \E i \in DOMAIN vault_file.credentials :
           /\ vault_file.credentials[i].encrypted
           /\ Decrypt(vault_file.credentials[i].access_token, GatewayKey).kind # "ok"

\* C15: load_from_file fails exactly when the file cannot be read or is no
\* JSON of a credentials file; a record flagged encrypted: true whose token
\* does not decrypt under the given key does not make it fail.
C15_LoadFailsOnlyOnIoOrJson ==
    opened.kind # NoValue => (opened.kind = "ok" <=> opened.file.status = "ok")

\* load_from_file has failed on a readable, well-formed file whose records are
\* all flagged encrypted: true
C15_Witness ==
    /\ opened.kind = "Internal"
    /\ opened.file.status = "ok"
    /\ ~NeedsMigration(opened.file)
    /\ vault_file = opened.file

C17_OtherKeyFails ==
    (crypto.pc = "done" /\ crypto.key # crypto.other) => crypto.crossed.kind # "ok"

\* a token encrypted under "ab" has been decrypted under "abab"
C17_Witness ==
    /\ crypto.pc = "done"
    /\ crypto.key = <<97, 98>>
    /\ crypto.other = <<97, 98, 97, 98>>
    /\ crypto.plaintext # ""
    /\ crypto.crossed = Ok(crypto.plaintext)

----------------------------------------------------------------------------
(* Claims about the user store *)

\* C18: a call of create_user with an email that is in the email index when
\* the call is made returns BadRequest at once and changes neither the id
\* index, nor the email index, nor the users file.
C18_DuplicateEmailRejected ==
    [][\A t \in Tasks :
          (reg[t].pc # "insert" /\ reg'[t] # reg[t]
           /\ reg'[t].user.email \in DOMAIN users_by_email)
              => /\ reg'[t].pc = "done"
                 /\ reg'[t].result = "BadRequest"
                 /\ UNCHANGED <<users, users_by_email, users_file>>]_vars

\* a user value with a new id and the email of a user created before has been
\* turned away
C18_Witness ==
    \E t \in Tasks :
        /\ reg[t].pc = "done"
        /\ reg[t].result = "BadRequest"
        /\ reg[t].user.email \in DOMAIN users_by_email
        /\ reg[t].user.id \notin DOMAIN users
        /\ Count(created, reg[t].user.email) = 1

\* C19: no two users of the id index have the same email, and of the
\* create_user calls made with one email at most one has returned Ok.
C19_EmailsUnique ==
    /\ \A a, b \in DOMAIN users : users[a].email = users[b].email => a = b
    /\ \A email \in DOMAIN created : created[email] <= 1

\* two concurrent registrations with one email have both succeeded
C19_Witness ==
    \E a, b \in DOMAIN users :
        /\ a # b
        /\ users[a].email = users[b].email
        /\ Count(created, users[a].email) = 2
        /\ \A t \in Tasks : reg[t].pc = "done" /\ reg[t].result = "ok"

\* C20: the email index is exactly the map from the email of each user of the
\* id index to that user's id.
C20_IndicesConsistent ==
    /\ DOMAIN users_by_email = {users[id].email : id \in DOMAIN users}
    /\ \A id \in DOMAIN users : users_by_email[users[id].email] = id
    /\ \A id \in DOMAIN users : users[id].id = id

\* after one create_user and one update_user of the same id, the email index
\* still maps the old email and does not know the new one
C20_Witness ==
    /\ reg[1].pc = "done"
    /\ reg[1].result = "ok"
    /\ DOMAIN users = {reg[1].user.id}
    /\ DOMAIN users_by_email = {reg[1].user.email}
    /\ users[reg[1].user.id].email # reg[1].user.email

\* C21: when the file write of create_user fails, the call returns Internal
\* and, right after it, get_user of the new id returns the new user, the email
\* index maps the new email to the new id, and create_user with the same email
\* is turned away with BadRequest.
C21_FailedWriteKeepsMemory ==
    [][\A t \in Tasks :
          (reg[t].pc = "insert" /\ reg'[t].result = "Internal")
              => /\ users_file' = users_file
                 /\ GetUser(reg[t].user.id)' = {reg[t].user}
                 /\ reg[t].user.email \in DOMAIN users_by_email'
                 /\ users_by_email'[reg[t].user.email] = reg[t].user.id
                 /\ CreateUserCheck(reg[t].user)'.result = "BadRequest"]_vars

\* a registration has failed on the file write, the file does not list the new
\* user, and a later registration with the same email has been turned away
C21_Witness ==
    \E t, retry \in Tasks :
        /\ reg[t].pc = "done" /\ reg[t].result = "Internal"
        /\ reg[t].user.id \notin DOMAIN users_file
        /\ GetUser(reg[t].user.id) = {reg[t].user}
        /\ users_by_email[reg[t].user.email] = reg[t].user.id
        /\ reg[retry].pc = "done" /\ reg[retry].result = "BadRequest"
        /\ reg[retry].user.email = reg[t].user.email
        /\ reg[retry].user.id # reg[t].user.id

----------------------------------------------------------------------------
(* Claims about the dispatch and the token refresh *)

Dispatched(q) == Done(q) /\ Contains(q.effects, "dispatch")

\* C22: for every request that is dispatched and answered by the upstream,
\* the status of the gateway's response equals the status of the upstream's
\* response, and its body is the upstream's JSON body or the placeholder for a
\* body that is no JSON.
C22_StatusOfUpstreamReturned ==
    \A r \in Reqs :
        LET q == req[r]
        IN  (Dispatched(q) /\ q.upstream # 0) =>
                /\ q.status = q.upstream
                /\ q.body = IF q.answer.json THEN q.answer.text ELSE RawPlaceholder

\* an upstream answer 404 with a body that is no JSON has been returned as 200
\* with the placeholder
C22_Witness ==
    \E r \in Reqs :
        /\ Dispatched(req[r])
        /\ req[r].upstream = 404
        /\ req[r].status = 200
        /\ ~req[r].answer.json
        /\ req[r].body = RawPlaceholder

Range(seq) == {seq[i] : i \in DOMAIN seq}

Named(headers, name) == SelectSeq(headers, LAMBDA h : h.name = name)

\* C23: every upstream request carries exactly one Authorization value,
\* Bearer and the access token of the vault credential used, never the
\* caller's; and the caller's headers it carries are exactly the incoming
\* headers whose name is not hop-by-hop, not host and not authorization.
C23_CredentialSubstituted ==
    \A r \in Reqs :
        LET q == req[r]
        IN  Dispatched(q) =>
                /\ Named(q.sent, "authorization")
                       = <<Header("authorization", Ascii("Bearer " \o q.token))>>
                /\ Range(Named(q.headers, "authorization")) \cap Range(q.sent) = {}
                /\ {h \in Range(q.sent) : h.name # "authorization"}
                       = {h \in Range(q.headers) :
                             h.name \notin HopByHop \cup {"host", "authorization"}}

\* a request has been sent upstream with the vault's token in place of the
\* caller's Authorization, and without the caller's header whose value is
\* UTF-8 text outside ASCII
C23_Witness ==
    \E r \in Reqs :
        LET q == req[r]
        IN  /\ Dispatched(q)
            /\ Named(q.headers, "authorization") # << >>
            /\ \E h \in Range(q.headers) :
                   /\ h.name = "x-note"
                   /\ h.value.kind = "utf8"
                   /\ h \notin Range(q.sent)

\* the request holds the credential as the vault's get returned it
Fetched(q) == q.pc \in {"vault_update", "forward"} /\ ~Contains(q.effects, "vault_update")

\* C24: needs_refresh(c) is true exactly when c.expires_at is set and
\* now + 6 h > c.expires_at; and the pipeline refreshes by this predicate,
\* whatever value TOKEN_REFRESH_BUFFER_SECS has: it goes on to the vault's
\* update exactly when the predicate holds and c has a refresh token.
C24_NeedsRefreshSixHours ==
    \A r \in Reqs :
        LET q == req[r]
            c == q.credential
            due == c.expires_at # {}
                       /\ \A e \in c.expires_at : q.fetched_at + 6 > e
        IN  Fetched(q) =>
                /\ q.needs_refresh <=> due
                /\ q.pc = "vault_update" <=> (due /\ c.refresh_token # {})

\* with a buffer setting of 300 s, a credential that expires in exactly 5 hours
\* is being refreshed
C24_Witness ==
    \E r \in Reqs :
        /\ req[r].pc = "vault_update"
        /\ settings.token_refresh_buffer_secs = 300
        /\ req[r].credential.expires_at = {req[r].fetched_at + 5}
        /\ req[r].needs_refresh

\* a credential that expires in exactly 6 hours is not refreshed
C24_WitnessBoundary ==
    \E r \in Reqs :
        /\ req[r].pc = "forward"
        /\ req[r].credential.expires_at = {req[r].fetched_at + 6}
        /\ req[r].credential.refresh_token # {}
        /\ ~req[r].needs_refresh

\* C25: for every credential c with a refresh token and an expiry that
\* satisfies needs_refresh, refresh_token(c) returns a credential that expires
\* later than c and equals c in every other field.
C25_RefreshExtendsExpiry ==
    \A r \in Reqs :
        LET q == req[r]
        IN  q.pc = "vault_update" =>
                /\ \A old \in q.credential.expires_at, new \in q.refreshed.expires_at :
                       new > old
                /\ q.refreshed.expires_at # {}
                /\ q.refreshed = [q.credential EXCEPT !.expires_at = q.refreshed.expires_at]

\* a credential that expired in 5 hours has been refreshed to one that expires
\* in 1 hour
C25_Witness ==
    \E r \in Reqs :
        /\ req[r].pc = "vault_update"
        /\ req[r].credential.expires_at = {req[r].fetched_at + 5}
        /\ req[r].refreshed.expires_at = {req[r].fetched_at + 1}

----------------------------------------------------------------------------
(* Claims about the agents and their lifecycle *)

\* C26: add_service applied a second time with the same service leaves
\* allowed_services as the first call left it; after add_service(s),
\* can_access_service(s) is true; can_access_service(s) is membership of s in
\* allowed_services; remove_service(s) returns true exactly when s was in
\* allowed_services, and can_access_service(s) is false after it.
C26_AddIdempotentRemoveExact ==
    LET s == direct.call.service_id
    IN  /\ \A x \in DirectServices :
               CanAccessService(direct.agent, x) <=> x \in Range(direct.agent.allowed_services)
        /\ direct.call.op = "add_service" => CanAccessService(direct.agent, s)
        /\ (direct.call.op = "add_service" /\ direct.prev = direct.call)
               => direct.agent.allowed_services = direct.before.allowed_services
        /\ direct.call.op = "remove_service" =>
               /\ direct.returned <=> s \in Range(direct.before.allowed_services)
               /\ ~CanAccessService(direct.agent, s)

\* add_service has been called twice in a row with the same service, and the
\* list holds it once
C26_Witness ==
    /\ direct.call.op = "add_service"
    /\ direct.prev = direct.call
    /\ Len(SelectSeq(direct.agent.allowed_services, LAMBDA x : x = direct.call.service_id)) = 1
    /\ direct.agent.allowed_services # << >>

\* remove_service has returned true for a service that the list held twice
C26_WitnessRemove ==
    /\ direct.call.op = "remove_service"
    /\ direct.returned
    /\ Len(direct.before.allowed_services) - Len(direct.agent.allowed_services) = 2

\* the fields of an agent that no call changes in place
KeyOf(agent) ==
    [id |-> agent.id, expires_at |-> agent.expires_at,
     lifespan_days |-> agent.lifespan_days, created_at |-> agent.created_at]

\* C27: the expiry of an agent is never extended in place.  A record of the
\* agent store keeps its id, expires_at, lifespan_days and created_at through
\* every grant, revoke and update_agent; a record under a new id is either a
\* new agent, with expires_at = created_at + lifespan_days, or the rotation
\* of a stored agent, with a fresh id and expires_at = now + lifespan_days.
C27_ExpiryNeverExtendedInPlace ==
    [][/\ \A id \in DOMAIN agents \cap DOMAIN agents' :
              KeyOf(agents'[id]) = KeyOf(agents[id])
       /\ \A id \in DOMAIN agents' \ DOMAIN agents :
              LET agent == agents'[id]
              IN  /\ agent.id = id
                  /\ id > uuid /\ id <= uuid'
                  /\ agent.expires_at = now + agent.lifespan_days * HoursPerDay
                  /\ \/ agent.created_at = now
                     \/ \E old \in DOMAIN agents :
                            agent = [agents[old] EXCEPT !.id = id,
                                                        !.expires_at = agent.expires_at]
      ]_vars

\* a stored agent has been rotated after a grant: the record under the new id
\* expires later, and the record under the old id still has the old expiry
C27_Witness ==
    \E old \in rotated, new \in DOMAIN agents :
        /\ old \in DOMAIN agents
        /\ new # old
        /\ agents[new].created_at = agents[old].created_at
        /\ agents[new].expires_at > agents[old].expires_at
        /\ agents[old].expires_at
               = agents[old].created_at + agents[old].lifespan_days * HoursPerDay
        /\ Len(agents[new].allowed_services) = 2

\* C28: with no delete, every agent id listed in the agents of some user is a
\* key of the agent store.
C28_UserAgentsExist ==
    \A user_id \in DOMAIN users :
        \A i \in 1..Len(users[user_id].agents) :
            users[user_id].agents[i] \in DOMAIN agents

\* a user lists an agent id that has been rotated
C28_Witness ==
    \E user_id \in DOMAIN users :
        \E i \in 1..Len(users[user_id].agents) :
            /\ users[user_id].agents[i] \in rotated
            /\ users[user_id].agents[i] \in DOMAIN agents

\* a user lists an agent that create_agent_access has created
C28_WitnessCreated ==
    \E user_id \in DOMAIN users :
        \E i \in 1..Len(users[user_id].agents) :
            /\ users[user_id].agents[i] <= MaxUuid
            /\ users[user_id].agents[i] \in DOMAIN agents

\* C29: create_agent_access with a user_id that is not in the user store
\* answers NotFound, and with a known user and an unknown service id or an
\* empty list of services BadRequest; in both cases no agent and no session is
\* created and no user record changes.
C29_RejectedCreateChangesNothing ==
    [][\A user_id \in DOMAIN users \cup {NilUuid}, services \in LifecycleServiceLists :
           LET unknown_user == user_id \notin DOMAIN users
               bad_services == \/ services = << >>
                               \/ \E i \in 1..Len(services) : services[i] \notin Services
           IN  (/\ resp'.op = "create_agent"
                /\ unknown_user \/ bad_services) =>
                   \/ /\ resp'.kind = IF unknown_user THEN "NotFound" ELSE "BadRequest"
                      /\ UNCHANGED <<agents, sessions, users, users_by_email, users_file>>
                   \/ \A lifespan_days \in LifespanDays, wr \in 0..3 :
                          ~CreateAgentAccess(user_id, services, lifespan_days, wr)
      ]_vars

\* a creation has been rejected for a service the registry does not know,
\* after a known one, while the store holds an agent and a session
C29_Witness ==
    /\ resp.op = "create_agent"
    /\ resp.kind = "BadRequest"
    /\ agents # << >>
    /\ sessions # << >>

----------------------------------------------------------------------------
(* Claims about the migration of the credentials file                       *)

\* the records of a file that are flagged encrypted: true all decrypt under key
Decrypts(file, key) ==
    \A i \in DOMAIN file.credentials :
        LET record == file.credentials[i]
        IN  record.encrypted =>
                /\ Decrypt(record.access_token, key).kind = "ok"
                /\ \A rt \in record.refresh_token : Decrypt(rt, key).kind = "ok"

\* the token a record of the file stands for: its text when the record is in
\* plaintext, else what decrypt returns for it
TokenOf(record, token, key) ==
    IF record.encrypted THEN Decrypt(token, key).value ELSE token.text

\* C30: when load_from_file has read every record of a file that needs the
\* migration, and the migration fails (an encryption, the serialization or the
\* write of the file), the load still succeeds; until the first update the
\* file on disk is the file that was read, and the in-memory map has exactly
\* one entry per record of the file, holding the record's tokens in plaintext
\* (decrypted when the record was encrypted) and its other fields.
C30_FailedMigrationSwallowed ==
    (/\ opened.kind # NoValue
     /\ opened.file.status = "ok"
     /\ NeedsMigration(opened.file)
     /\ Decrypts(opened.file, GatewayKey)
     /\ opened.wr # 0) =>
        /\ opened.kind = "ok"
        /\ (saved.kind = NoValue /\ vault_lock = 0) =>
               /\ vault_file = opened.file
               /\ DOMAIN credentials
                      = {opened.file.credentials[i].service_id :
                             i \in DOMAIN opened.file.credentials}
               /\ \A i \in DOMAIN opened.file.credentials :
                      LET record == opened.file.credentials[i]
                      IN  credentials[record.service_id]
                              = StoredCredential(
                                    record.service_id,
                                    TokenOf(record, record.access_token, GatewayKey),
                                    {TokenOf(record, rt, GatewayKey) :
                                         rt \in record.refresh_token},
                                    record.expires_at, record.scopes)

\* the vault has been opened on a file with one record in plaintext and one
\* encrypted under the vault's key, the encryption of the migration has
\* failed, and the file still holds the plaintext record
C30_Witness ==
    /\ opened.kind = "ok"
    /\ opened.wr = 2
    /\ saved.kind = NoValue
    /\ vault_file = opened.file
    /\ \E i, j \in DOMAIN vault_file.credentials :
           /\ ~vault_file.credentials[i].encrypted
           /\ vault_file.credentials[j].encrypted
    /\ DOMAIN credentials = {"payment", "bank"}

\* the same, the write of the migrated file having failed
C30_WitnessWrite ==
    /\ opened.kind = "ok"
    /\ opened.wr = 1
    /\ saved.kind = NoValue
    /\ NeedsMigration(vault_file)
    /\ vault_file = opened.file
    /\ credentials # << >>

----------------------------------------------------------------------------
(* Claims about the sessions in use                                         *)

\* C31: sessions are not refreshed on use.  No step of the proxy pipeline
\* changes the session map or the agent map; a stored session never changes,
\* and every session has last_used_at = created_at and expires_at =
\* created_at + ttl; so validate_session accepts a session created at t at no
\* time later than t + ttl, however often it has been used.
C31_SessionsNotRefreshedOnUse ==
    [][/\ (\E r \in Reqs : req'[r] # req[r]) => UNCHANGED <<agents, sessions>>
       /\ \A sid \in DOMAIN sessions \cap DOMAIN sessions' : sessions'[sid] = sessions[sid]
       /\ \A sid \in DOMAIN sessions' :
              /\ sessions'[sid].last_used_at = sessions'[sid].created_at
              /\ sessions'[sid].expires_at = sessions'[sid].created_at + SessionTtlHours
       /\ \A r \in Reqs :
              (req[r].pc = "idle" /\ req'[r].pc = "get_agent") =>
                  /\ req'[r].header \in DOMAIN sessions
                  /\ now <= sessions[req'[r].header].created_at + SessionTtlHours
      ]_vars

\* a session created earlier is in use by a request for the second time at
\* least, and is as it was created
C31_Witness ==
    \E r \in Reqs :
        /\ req[r].pc = "get_agent"
        /\ req[r].header \in DOMAIN sessions
        /\ sessions[req[r].header].created_at < now
        /\ sessions[req[r].header].last_used_at = sessions[req[r].header].created_at
        /\ Entry(windows, AgentKey(UuidString(req[r].session.agent_id))) # << >>

----------------------------------------------------------------------------
(* Claims about the concurrent calls on the stores                          *)

AgentStoreOps == {"create_agent", "update_agent", "delete_agent", "create_session"}
UserStoreOps == {"create_user", "update_user", "get_user", "get_user_by_email"}

\* the lock a waiting task waits for
Wanted(t) == locks[LocksOf(calls[t].op)[calls[t].stage].lock]

\* the tasks of S wait for locks that only tasks of S stand before: none of
\* them is ever granted its lock
BlockedForever(S) ==
    /\ S # {}
    /\ \A t \in S :
           /\ calls[t].pc = "wait"
           /\ Waits(Wanted(t), t)
           /\ Blockers(Wanted(t), t) \subseteq S

\* C32: the agent store cannot deadlock.  In no state do concurrent calls of
\* create_agent, update_agent, delete_agent and create_session wait for each
\* other's locks so that none of them can ever return.
C32_AgentStoreNeverDeadlocks ==
    \A S \in SUBSET Tasks :
        (\A t \in S : calls[t].op \in AgentStoreOps) => ~BlockedForever(S)

\* create_agent holds the write lock of agents and waits for the read lock of
\* sessions, while create_session holds the write lock of sessions and waits
\* for the read lock of agents
C32_Witness ==
    \E t, u \in Tasks :
        /\ calls[t].op = "create_agent" /\ calls[t].pc = "wait"
        /\ calls[u].op = "create_session" /\ calls[u].pc = "wait"
        /\ locks["agents"].writer = t /\ Waits(locks["sessions"], t)
        /\ locks["sessions"].writer = u /\ Waits(locks["agents"], u)

\* C33: the user store cannot deadlock.  In no state do concurrent calls of
\* create_user, update_user, get_user and get_user_by_email wait for each
\* other's locks so that none of them can ever return.
C33_UserStoreNeverDeadlocks ==
    \A S \in SUBSET Tasks :
        (\A t \in S : calls[t].op \in UserStoreOps) => ~BlockedForever(S)

\* create_user holds the write lock of users and waits for the write lock of
\* users_by_email, while get_user_by_email holds the read lock of
\* users_by_email and waits for the read lock of users
C33_Witness ==
    \E t, u \in Tasks :
        /\ calls[t].op = "create_user" /\ calls[t].pc = "wait"
        /\ calls[u].op = "get_user_by_email" /\ calls[u].pc = "wait"
        /\ locks["users"].writer = t /\ Waits(locks["users_by_email"], t)
        /\ u \in locks["users_by_email"].readers /\ Waits(locks["users"], u)

Entitlement == {"grant_service_access", "revoke_service_access"}

\* the stored agent shows the change that the handler of task t has made
Reflected(t) ==
    /\ calls[t].id \in DOMAIN agents
    /\ CanAccessService(agents[calls[t].id], calls[t].service)
           <=> calls[t].op = "grant_service_access"

\* C34: no update of an agent's entitlements is lost.  When two grant or
\* revoke handlers for the same agent and different services have both
\* returned success, and no other call has written the agent, the stored
\* agent shows both changes.
C34_NoLostEntitlementUpdate ==
    \A t, u \in Tasks :
        (/\ t # u
         /\ calls[t].op \in Entitlement /\ calls[u].op \in Entitlement
         /\ calls[t].pc = "returned" /\ calls[u].pc = "returned"
         /\ calls[t].result = "ok" /\ calls[u].result = "ok"
         /\ calls[t].id = calls[u].id
         /\ calls[t].service # calls[u].service
         /\ \A v \in Tasks \ {t, u} :
                calls[v].op \notin Entitlement \cup {"update_agent", "delete_agent"})
            => Reflected(t) /\ Reflected(u)

\* a grant of bank and a revoke of payment on the stored agent have both
\* returned success, and the agent still has payment or has no bank
C34_Witness ==
    \E t, u \in Tasks :
        /\ calls[t].op = "grant_service_access" /\ calls[t].service = "bank"
        /\ calls[u].op = "revoke_service_access" /\ calls[u].service = "payment"
        /\ calls[t].pc = "returned" /\ calls[u].pc = "returned"
        /\ calls[t].result = "ok" /\ calls[u].result = "ok"
        /\ calls[t].id = calls[u].id
        /\ calls[t].found = calls[u].found
        /\ ~(Reflected(t) /\ Reflected(u))

----------------------------------------------------------------------------
(* Claims about the budget and the refresh in the pipeline                  *)

C35_WitnessServiceLimit ==
    \E r \in Reqs :
        /\ EndedAt(req[r], "check_service", "RateLimitExceeded")
        /\ req[r].header \in DOMAIN sessions
        /\ Entry(windows, AgentKey(UuidString(sessions[req[r].header].agent_id))) # << >>

\* a stored credential that the pipeline refreshes: it has a refresh token
\* and satisfies needs_refresh now
InRefreshState(creds, s, t) ==
    /\ s \in DOMAIN creds
    /\ creds[s].refresh_token # {}
    /\ NeedsRefresh(creds[s], t)

-----------------------------------------------------------------------------
(* Claims about the stored access keys                                      *)

NoDuplicates(list) == \A i, j \in 1..Len(list) : list[i] = list[j] => i = j

\* C37: the allowed_services of every stored agent hold no service id twice,
\* and every id in them is a service of the registry.
C37_AllowedServicesIsASet ==
    \A id \in DOMAIN agents :
        /\ NoDuplicates(agents[id].allowed_services)
        /\ \A s \in Range(agents[id].allowed_services) : ServiceExists(s)

\* create_agent_access has answered with the id of a new agent whose
\* allowed_services are more than one service
C37_Witness ==
    /\ resp.op = "create_agent"
    /\ resp.kind = "ok"
    /\ resp.agent_id \in DOMAIN agents
    /\ Len(agents[resp.agent_id].allowed_services) > 1

\* every id in the allowed_services of a stored agent is a service of the
\* registry
C37_AllowedServicesExist ==
    \A id \in DOMAIN agents :
        \A s \in Range(agents[id].allowed_services) : ServiceExists(s)

\* C38: when rotate_agent_key answers with the new id, the store holds the
\* agent under the new id and holds no record under the replaced id, so that
\* it has as many agent records as before.
C38_RotationReplacesKey ==
    [][(resp'.op = "rotate" /\ resp'.kind = "ok" /\ resp.op = NoValue) =>
           /\ resp'.agent_id \in DOMAIN agents'
           /\ \A old \in rotated' \ rotated : old \notin DOMAIN agents'
           /\ Cardinality(DOMAIN agents') = Cardinality(DOMAIN agents)
      ]_vars

\* rotate_agent_key has answered with the new id of an agent that was granted
\* a service before, and the store holds the agent under that id
C38_Witness ==
    /\ resp.op = "rotate"
    /\ resp.kind = "ok"
    /\ resp.agent_id \in DOMAIN agents
    /\ agents[resp.agent_id].id = resp.agent_id
    /\ rotated # {}
    /\ Len(agents[resp.agent_id].allowed_services) > 1

-----------------------------------------------------------------------------
(* Claims about the entitlement of the sessions in use                      *)

\* the agent record that validate_session finds for a stored session allows
\* the service
SessionEntitled(agent_map, session, service_id) ==
    /\ session.agent_id \in DOMAIN agent_map
    /\ CanAccessService(agent_map[session.agent_id], service_id)

\* C39: when revoke_service_access has answered with success for a service,
\* no stored session of the agent is entitled to it, and when
\* grant_service_access has, every stored session of the agent is; a stored
\* session gains a service in a step of grant_service_access only and loses
\* one in a step of revoke_service_access or delete_agent only; and a request that has passed
\* the session's and the key's expiry is answered ServiceNotAllowed, and not
\* dispatched, exactly when its session is not entitled at that moment.
C39_RevocationEffectiveAtOnce ==
    [][/\ \A service_id \in Services :
              /\ (/\ resp'.op = "revoke"
                  /\ resp'.kind = "ok"
                  /\ RevokeServiceAccess(resp'.agent_id, service_id, 0)) =>
                     \A sid \in DOMAIN sessions' :
                         ~SessionEntitled(agents', sessions'[sid], service_id)
              /\ (/\ resp'.op = "grant"
                  /\ resp'.kind = "ok"
                  /\ GrantServiceAccess(resp'.agent_id, service_id, 0)) =>
                     \A sid \in DOMAIN sessions' :
                         SessionEntitled(agents', sessions'[sid], service_id)
              /\ \A sid \in DOMAIN sessions \cap DOMAIN sessions' :
                     LET before == SessionEntitled(agents, sessions[sid], service_id)
                         after == SessionEntitled(agents', sessions'[sid], service_id)
                     IN  /\ (~before /\ after) => resp'.op = "grant"
                         /\ (before /\ ~after) => resp'.op \in {"revoke", "delete_agent"}
       /\ \A r \in Reqs :
              LET q == req[r]
              IN  (/\ q.pc = "get_agent"
                   /\ req'[r].pc # "get_agent"
                   /\ q.session.agent_id \in DOMAIN agents
                   /\ ~IsExpired(agents[q.session.agent_id], now)) =>
                      /\ req'[r].result = "ServiceNotAllowed"
                             <=> ~SessionEntitled(agents, q.session, q.service)
                      /\ req'[r].pc = "check_agent"
                             <=> SessionEntitled(agents, q.session, q.service)
      ]_vars

\* a request for a service has been dispatched on a session of the agent's
\* replaced id while the record under the agent's current id does not allow
\* the service
C39_Witness ==
    \E r \in Reqs, id \in DOMAIN agents \ rotated :
        /\ req[r].facts.key_rotated
        /\ Contains(req[r].effects, "dispatch")
        /\ req[r].service \in Services
        /\ ~CanAccessService(agents[id], req[r].service)

C40_WitnessCreated ==
    /\ resp.op = "create_agent"
    /\ resp.kind = "ok"
    /\ resp.session_id \in DOMAIN sessions
    /\ sessions[resp.session_id].agent_id = resp.agent_id

====
